---- MODULE Spec2Model ----
(***************************************************************************)
(* Task / submission lifecycle of the app-build-deploy evaluation system:  *)
(* the four sqlite tables of database.py, the round-1 and round-2 issuance *)
(* sweeps (round1.py, round2.py) and the notification gate                 *)
(* (evaluation_api.py, POST /api/notify).                                  *)
(*                                                                         *)
(* Conventions.  A Python string that the code splits on '-' is a sequence *)
(* of its '-'-separated segments ("todo-manager-47802" is                  *)
(* <<"todo","manager","47802">>).  A table is the sequence of its rows in  *)
(* rowid order; INSERT OR REPLACE deletes the conflicting row and appends  *)
(* the new one (a fresh AUTOINCREMENT id).  The timestamp column is left   *)
(* out.  Python None / SQL NULL is NoneStr, NoneInt or NoneTask according  *)
(* to the type of the value it stands in for.                              *)
(***************************************************************************)
EXTENDS Integers, Sequences, FiniteSets, TLC

VARIABLES submissions_file, tasks, repos, results, hour, nextNonce, delivered,
          r1idx, r1pending, r2todo, r2pending,
          gateSlot, gateOut, accepted,
          failed_tasks, retried,
          notifyPc, attempt, posts, sleeps, notified, evaluation_url,
          evalQueue, evalPc, evalResults, temp_dirs, passes, evalExit,
          submissions, storeOut,
          buildSlot, buildOut, deployed,
          workerSlot, workerOut,
          silent,
          rng, calls,
          readmeChecked, dynamicChecked, codeChecked, licenseChecked,
          clock, requests, granted, limitOut

\* retry_failed_round2_tasks: the failed tasks still to retry, and the
\* payloads the sweep has posted.
retryVars == <<failed_tasks, retried>>

\* notify_evaluation_api: where the call is, the loop variable, the outcomes
\* of the POSTs made and the delays slept.
notifyVars == <<notifyPc, attempt, posts, sleeps, notified, evaluation_url>>

\* evaluate.py: the repos evaluate_all_repositories has still to evaluate,
\* where evaluate_repository is, its local list 'results', the temporary
\* directories that exist, the number of passes started and how the latest
\* pass ended.
evalVars == <<evalQueue, evalPc, evalResults, temp_dirs, passes, evalExit>>

\* DatabaseManager called on its own: the submissions table and how the
\* latest insert_* call ended.
storeVars == <<submissions, storeOut>>

\* build_application: the build request whose notification is under way, the
\* latest response of /api/build, the repositories created and deployed.
buildVars == <<buildSlot, buildOut, deployed>>

\* receive_notification run by two request threads: the notification each
\* thread has matched and not yet stored, and the latest response of each.
raceVars == <<workerSlot, workerOut>>

\* The remote peers that never answer a request made to them.
peerVars == silent

\* The state of the process-wide random generator, and the template
\* selections and other draws made so far, oldest first.
rngVars == <<rng, calls>>

\* check_mit_license, check_readme_quality, check_code_quality and
\* dynamic_check_playwright called on their own: the latest call of each with
\* what it was given and what it returned.
scoreVars == <<readmeChecked, dynamicChecked, codeChecked, licenseChecked>>

\* RateLimiter: time.time(), self.requests, the times at which each email
\* was allowed since the limiter was made, and what the latest call of
\* is_allowed was given and returned.
limitVars == <<clock, requests, granted, limitOut>>

vars == <<submissions_file, tasks, repos, results, hour, nextNonce, delivered,
          r1idx, r1pending, r2todo, r2pending,
          gateSlot, gateOut, accepted,
          retryVars, notifyVars, evalVars, storeVars, buildVars, raceVars,
          peerVars, rngVars, scoreVars, limitVars>>

(***************************************************************************)
(* Bounds of the model.                                                    *)
(***************************************************************************)
\* uuid4 nonces are fresh tokens 1, 2, ...; at most MaxNonce are minted.
MaxNonce == 2
\* datetime.now() hour buckets 0 .. MaxHour; hour is the latest bucket read.
MaxHour == 1
\* rows of the repos table.
MaxRepos == 1
\* calls of evaluate_repository.
MaxPasses == 2
\* rows of the results table when insert_result is called on its own.
MaxResults == 2

NoneStr == "None"
NoneInt == -1
NoneTask == << >>

(***************************************************************************)
(* TemplateCatalog: round1.py TaskTemplates and round2.py round2_templates *)
(***************************************************************************)
CaptchaSolver == <<"captcha", "solver">>
WeatherDashboard == <<"weather", "dashboard">>
TodoManager == <<"todo", "manager">>

\* TaskTemplates.get_templates(): the 'round1' entry of each family.  The
\* brief and the checks are opaque labels, attachments are attachment names.
get_templates ==
    [t \in {CaptchaSolver, WeatherDashboard, TodoManager} |->
        IF t = CaptchaSolver
        THEN [brief |-> "captcha-r1", checks |-> "captcha-r1-checks",
              attachments |-> <<"sample.png">>]
        ELSE IF t = WeatherDashboard
        THEN [brief |-> "weather-r1", checks |-> "weather-r1-checks",
              attachments |-> << >>]
        ELSE [brief |-> "todo-r1", checks |-> "todo-r1-checks",
              attachments |-> << >>]]

\* Round2TaskGenerator.round2_templates: a list of two candidates per family.
round2_templates ==
    [t \in {CaptchaSolver, WeatherDashboard, TodoManager} |->
        IF t = CaptchaSolver
        THEN <<[brief |-> "captcha-r2-svg-audio", checks |-> "captcha-r2a-checks"],
               [brief |-> "captcha-r2-batch", checks |-> "captcha-r2b-checks"]>>
        ELSE IF t = WeatherDashboard
        THEN <<[brief |-> "weather-r2-forecast", checks |-> "weather-r2a-checks"],
               [brief |-> "weather-r2-alerts", checks |-> "weather-r2b-checks"]>>
        ELSE <<[brief |-> "todo-r2-categories", checks |-> "todo-r2a-checks"],
               [brief |-> "todo-r2-collab", checks |-> "todo-r2b-checks"]>>]

\* hashlib.md5(brief + json.dumps(attachments or [])).hexdigest()[:5], as the
\* code computes it for the three round-1 briefs of the catalog.
md5_5(brief) ==
    IF brief = "captcha-r1" THEN "f239c"
    ELSE IF brief = "weather-r1" THEN "ff4ff"
    ELSE "47802"

\* Round1TaskGenerator.generate_task_id: f"{template_id}-{hash_value}".
generate_task_id(template_id, brief, attachments) ==
    Append(template_id, md5_5(brief))

\* The catalog family of a task id: the id without its hash.
FamilyOf(task) == SubSeq(task, 1, Len(task) - 1)

\* The rows of a submissions CSV read by process_submissions, and the CSV
\* files the sweep is run on (one student, two students).
CsvRow(who) ==
    [email |-> who \o "@x.edu", endpoint |-> "http://" \o who \o "/api/build",
     secret |-> "secret-" \o who]

SubmissionsFiles == { <<CsvRow("b")>>, <<CsvRow("b"), CsvRow("a")>> }

\* A line of the CSV with the email only: csv.DictReader gives None for the
\* fields the line lacks.
ShortRow(who) ==
    [email |-> who \o "@x.edu", endpoint |-> NoneStr, secret |-> NoneStr]

Emails == {"a@x.edu", "b@x.edu"}

\* Round1TaskGenerator.select_template: random.seed(md5(email + date_hour));
\* random.choice(list(templates)).  The values are those the code returns
\* for these two emails and the date_hour strings "2026-01-01-00",
\* "2026-01-01-01", ... (hour h is "2026-01-01-0h").
select_template(email, date_hour) ==
    IF email = "a@x.edu"
    THEN (IF date_hour <= 2 THEN CaptchaSolver
          ELSE IF date_hour = 3 THEN WeatherDashboard
          ELSE IF date_hour = 4 THEN TodoManager ELSE WeatherDashboard)
    ELSE (IF date_hour = 0 THEN TodoManager
          ELSE IF date_hour <= 2 THEN WeatherDashboard
          ELSE IF date_hour = 3 THEN TodoManager ELSE CaptchaSolver)

\* The process-wide generator of the random module.  Its state is the seed it
\* was last given and whether anything has been drawn since; Unseeded is the
\* state at import, seeded by the system.  The seed md5(email + date_hour) is
\* written as the pair: a date_hour has a fixed length, so two pairs give
\* the same string only when they are equal.
Unseeded == <<NoneStr, NoneInt>>

\* random.seed(hashlib.md5(f"{email}{date_hour}".encode()).hexdigest())
random_seed(email, date_hour) == [seed |-> <<email, date_hour>>, fresh |-> TRUE]

\* random.choice(template_ids): the ids it may return in a state of the
\* generator.  The first draw after random.seed is the one select_template
\* tabulates; a later draw, or a draw of the unseeded generator, may be any
\* id.
random_choice(state) ==
    IF state.fresh /\ state.seed # Unseeded
    THEN {select_template(state.seed[1], state.seed[2])}
    ELSE DOMAIN get_templates

\* The state of the generator after a draw.
random_drawn(state) == [state EXCEPT !.fresh = FALSE]

(***************************************************************************)
(* RateLimiter: security.py                                                *)
(***************************************************************************)
\* self.max_requests_per_hour and self.max_requests_per_minute.
max_requests_per_hour == 10
max_requests_per_minute == 2

\* The ages, in seconds, below which is_allowed keeps a request and counts
\* it as recent.
HourWindow == 3600
MinuteWindow == 60

\* The emails is_allowed is called with.
LimiterEmails == {"a@x.edu", "b@x.edu"}

\* The values time.time() takes at the calls, in seconds from the first.
Times == {0, 30, 60, 120, 180, 240, 3599, 3600}

\* The number of requests of the second email that are allowed.
MaxOther == 1

\* The timestamps of a list that are younger than window at current_time,
\* in order.
RECURSIVE SelectAge(_, _, _)
SelectAge(timestamps, current_time, window) ==
    IF timestamps = << >>
    THEN << >>
    ELSE LET rest == SelectAge(Tail(timestamps), current_time, window)
         IN  IF current_time - Head(timestamps) < window
             THEN <<Head(timestamps)>> \o rest
             ELSE rest

\* Variant of is_allowed: the request is recorded before the limits are
\* looked at.
is_allowed_RecordFirst(timestamps, current_time) ==
    LET kept == Append(SelectAge(timestamps, current_time, HourWindow),
                       current_time)
        recent_requests == SelectAge(kept, current_time, MinuteWindow)
    IN  IF Len(recent_requests) > max_requests_per_minute
        THEN [requests |-> kept, allowed |-> FALSE,
              reason |-> "Too many requests per minute"]
        ELSE IF Len(kept) > max_requests_per_hour
        THEN [requests |-> kept, allowed |-> FALSE,
              reason |-> "Too many requests per hour"]
        ELSE [requests |-> kept, allowed |-> TRUE,
              reason |-> "Request allowed"]

\* RateLimiter.is_allowed (security.py 246-275) on the list of an email
\* (empty when the email is not in self.requests): the list it leaves and
\* the pair it returns.
is_allowed(timestamps, current_time) ==
    LET kept == SelectAge(timestamps, current_time, HourWindow)
        recent_requests == SelectAge(kept, current_time, MinuteWindow)
    IN  IF Len(recent_requests) >= max_requests_per_minute
        THEN [requests |-> kept, allowed |-> FALSE,
              reason |-> "Too many requests per minute"]
        ELSE IF Len(kept) >= max_requests_per_hour
        THEN [requests |-> kept, allowed |-> FALSE,
              reason |-> "Too many requests per hour"]
        ELSE [requests |-> Append(kept, current_time), allowed |-> TRUE,
              reason |-> "Request allowed"]

NoLimitCall == [email |-> NoneStr, at |-> NoneInt, allowed |-> FALSE,
                reason |-> ""]

LimiterIdle ==
    /\ clock = 0
    /\ requests = [e \in LimiterEmails |-> << >>]
    /\ granted = [e \in LimiterEmails |-> << >>]
    /\ limitOut = NoLimitCall

ScoreIdle ==
    /\ readmeChecked = << >> /\ dynamicChecked = << >>
    /\ codeChecked = << >> /\ licenseChecked = << >>

RngIdle == rng = [seed |-> Unseeded, fresh |-> TRUE] /\ calls = << >>

TaskIds ==
    {generate_task_id(t, get_templates[t].brief, get_templates[t].attachments) :
        t \in DOMAIN get_templates}


(***************************************************************************)
(* PersistentStore: database.py DatabaseManager                            *)
(***************************************************************************)
\* UNIQUE(email, task, round) of the tasks and of the repos table.
SameKey(r, s) == r.email = s.email /\ r.task = s.task /\ r.round = s.round

\* Variant of InsertOrReplace: a plain INSERT into a table without the UNIQUE
\* constraint.
InsertOrReplace_Append(tbl, rec) == tbl \o <<rec>>

\* INSERT OR REPLACE: the row that conflicts on the UNIQUE key is deleted,
\* the new row gets the next rowid and so comes last.
InsertOrReplace(tbl, rec) ==
    SelectSeq(tbl, LAMBDA r : ~SameKey(r, rec)) \o <<rec>>

\* json.dumps / json.loads of a list: the text is not the list, and loads
\* gives back the list that was dumped.
json_dumps(v) == [json |-> v]

json_loads(text) == text.json

\* DatabaseManager.insert_task: the table after the call.  committed is the
\* method's return value: a write the store refuses (locked database, full
\* disk) raises inside the try block, the method returns False and the table
\* is as before.
insert_task(tbl, task_data, committed) ==
    IF committed
    THEN InsertOrReplace(tbl,
            [email |-> task_data.email, task |-> task_data.task,
             round |-> task_data.round, nonce |-> task_data.nonce,
             brief |-> task_data.brief,
             attachments |-> json_dumps(task_data.attachments),
             checks |-> json_dumps(task_data.checks),
             evaluation_url |-> task_data.evaluation_url,
             endpoint |-> task_data.endpoint,
             statuscode |-> task_data.statuscode,
             secret |-> task_data.secret])
    ELSE tbl

\* Variant of insert_repo: INSERT OR IGNORE, the row on file wins.
insert_repo_KeepFirst(tbl, repo_data, committed) ==
    IF committed /\ ~\E i \in 1..Len(tbl) : SameKey(tbl[i], repo_data)
    THEN Append(tbl,
            [email |-> repo_data.email, task |-> repo_data.task,
             round |-> repo_data.round, nonce |-> repo_data.nonce,
             repo_url |-> repo_data.repo_url,
             commit_sha |-> repo_data.commit_sha,
             pages_url |-> repo_data.pages_url])
    ELSE tbl

\* DatabaseManager.insert_repo: the table after the call.
insert_repo(tbl, repo_data, committed) ==
    IF committed
    THEN InsertOrReplace(tbl,
            [email |-> repo_data.email, task |-> repo_data.task,
             round |-> repo_data.round, nonce |-> repo_data.nonce,
             repo_url |-> repo_data.repo_url,
             commit_sha |-> repo_data.commit_sha,
             pages_url |-> repo_data.pages_url])
    ELSE tbl

\* Variant of insert_result: INSERT OR REPLACE on (email, task, round,
\* check_name), one row per check of a Submission.
insert_result_Replace(tbl, result_data, committed) ==
    IF committed
    THEN SelectSeq(tbl, LAMBDA r :
             ~(SameKey(r, result_data)
               /\ r.check_name = result_data.check_name))
         \o <<[email |-> result_data.email, task |-> result_data.task,
               round |-> result_data.round,
               repo_url |-> result_data.repo_url,
               commit_sha |-> result_data.commit_sha,
               pages_url |-> result_data.pages_url,
               check_name |-> result_data.check_name,
               score |-> result_data.score, reason |-> result_data.reason,
               logs |-> result_data.logs]>>
    ELSE tbl

\* DatabaseManager.insert_result: a plain INSERT into a table without a
\* UNIQUE constraint.  Scores are in tenths (1.0 is 10).
insert_result(tbl, result_data, committed) ==
    IF committed
    THEN Append(tbl,
            [email |-> result_data.email, task |-> result_data.task,
             round |-> result_data.round,
             repo_url |-> result_data.repo_url,
             commit_sha |-> result_data.commit_sha,
             pages_url |-> result_data.pages_url,
             check_name |-> result_data.check_name,
             score |-> result_data.score, reason |-> result_data.reason,
             logs |-> result_data.logs])
    ELSE tbl

\* Variant of insert_submission: the row is added and the row of the same
\* email is kept.
insert_submission_Keep(tbl, submission_data, committed) ==
    IF committed
    THEN tbl
         \o <<[email |-> submission_data.email,
               endpoint |-> submission_data.endpoint,
               secret |-> submission_data.secret,
               repo_url |-> IF "repo_url" \in DOMAIN submission_data
                            THEN submission_data.repo_url
                            ELSE ""]>>
    ELSE tbl

\* DatabaseManager.insert_submission: INSERT OR REPLACE on UNIQUE(email);
\* repo_url is submission_data.get('repo_url', '').
insert_submission(tbl, submission_data, committed) ==
    IF committed
    THEN SelectSeq(tbl, LAMBDA r : r.email # submission_data.email)
         \o <<[email |-> submission_data.email,
               endpoint |-> submission_data.endpoint,
               secret |-> submission_data.secret,
               repo_url |-> IF "repo_url" \in DOMAIN submission_data
                            THEN submission_data.repo_url
                            ELSE ""]>>
    ELSE tbl

\* What a call of an insert_* method meets.  "connect": sqlite3.connect or
\* conn.cursor() raises (the database file cannot be opened); these two
\* statements stand before the try block.  "record": the record lacks a key
\* the method reads or carries None for a NOT NULL column (KeyError,
\* IntegrityError inside the try block).  "write": execute or commit raises
\* (database locked, disk full).  "none": the row is committed.
StoreFaults == {"none", "connect", "record", "write"}

\* How the call ends: the try block turns its exceptions into False, what
\* is raised before it leaves the method.
StoreReturn(fault) ==
    IF fault = "connect" THEN "raised"
    ELSE IF fault = "none" THEN "True" ELSE "False"

\* The result of a call: the method and how it ended.
CallResult(op, fault) == [op |-> op, returned |-> StoreReturn(fault)]

\* No insert_* method has been called.
NoCall == [op |-> "none", returned |-> "none"]

\* A call of insert_task on its own.
CallInsertTask(task_data, fault) ==
    /\ tasks' = insert_task(tasks, task_data, fault = "none")
    /\ storeOut' = CallResult("insert_task", fault)
    /\ UNCHANGED <<repos, results, submissions>>
    /\ UNCHANGED <<submissions_file, hour, nextNonce, delivered, r1idx,
                   r1pending, r2todo, r2pending, gateSlot, gateOut, accepted>>
    /\ UNCHANGED <<retryVars, notifyVars, evalVars,
                   buildVars, raceVars, peerVars,
                   rngVars, scoreVars, limitVars>>

\* A call of insert_repo on its own.
CallInsertRepo(repo_data, fault) ==
    /\ repos' = insert_repo(repos, repo_data, fault = "none")
    /\ storeOut' = CallResult("insert_repo", fault)
    /\ UNCHANGED <<tasks, results, submissions>>
    /\ UNCHANGED <<submissions_file, hour, nextNonce, delivered, r1idx,
                   r1pending, r2todo, r2pending, gateSlot, gateOut, accepted>>
    /\ UNCHANGED <<retryVars, notifyVars, evalVars,
                   buildVars, raceVars, peerVars,
                   rngVars, scoreVars, limitVars>>

\* A call of insert_result on its own; at most MaxResults rows.
CallInsertResult(result_data, fault) ==
    /\ Len(results) < MaxResults
    /\ results' = insert_result(results, result_data, fault = "none")
    /\ storeOut' = CallResult("insert_result", fault)
    /\ UNCHANGED <<tasks, repos, submissions>>
    /\ UNCHANGED <<submissions_file, hour, nextNonce, delivered, r1idx,
                   r1pending, r2todo, r2pending, gateSlot, gateOut, accepted>>
    /\ UNCHANGED <<retryVars, notifyVars, evalVars,
                   buildVars, raceVars, peerVars,
                   rngVars, scoreVars, limitVars>>

\* A call of insert_submission on its own.
CallInsertSubmission(submission_data, fault) ==
    /\ submissions' = insert_submission(submissions, submission_data,
                                        fault = "none")
    /\ storeOut' = CallResult("insert_submission", fault)
    /\ UNCHANGED <<tasks, repos, results>>
    /\ UNCHANGED <<submissions_file, hour, nextNonce, delivered, r1idx,
                   r1pending, r2todo, r2pending, gateSlot, gateOut, accepted>>
    /\ UNCHANGED <<retryVars, notifyVars, evalVars,
                   buildVars, raceVars, peerVars,
                   rngVars, scoreVars, limitVars>>

\* DatabaseManager.get_tasks / get_repos: "if email:" and "if round_num:" add
\* the WHERE clause only for a truthy argument, so None, "" and 0 do not
\* filter.
get_rows(tbl, email, round_num) ==
    SelectSeq(tbl, LAMBDA r :
        /\ (email # NoneStr /\ email # "") => r.email = email
        /\ (round_num # NoneInt /\ round_num # 0) => r.round = round_num)

get_tasks(tbl, email, round_num) == get_rows(tbl, email, round_num)

get_repos(tbl, email, round_num) == get_rows(tbl, email, round_num)

\* DatabaseManager.task_exists: SELECT COUNT(*) ... WHERE email = ? AND
\* task = ? AND round = ?.  A comparison with a NULL parameter is never
\* true in SQL, so no row is counted when an argument is None.
task_exists(tbl, email, task, round_num) ==
    \E i \in 1..Len(tbl) :
        /\ email # NoneStr /\ tbl[i].email = email
        /\ task # NoneTask /\ tbl[i].task = task
        /\ round_num # NoneInt /\ tbl[i].round = round_num

(***************************************************************************)
(* TaskIssuer, round 1: round1.py Round1TaskGenerator                      *)
(***************************************************************************)
EvaluationUrl == "http://evaluator/api/notify"

\* Round1TaskGenerator.generate_task, with the clock and the uuid4 it draws.
generate_task(email, endpoint, secret, current_hour, uuid) ==
    LET template_id == select_template(email, current_hour)
        round1_template == get_templates[template_id]
    IN  [email |-> email, secret |-> secret,
         task |-> generate_task_id(template_id, round1_template.brief,
                                   round1_template.attachments),
         round |-> 1, nonce |-> uuid,
         brief |-> round1_template.brief,
         checks |-> round1_template.checks,
         evaluation_url |-> EvaluationUrl,
         attachments |-> round1_template.attachments]

\* task_record = task_data.copy() with 'endpoint' and 'statuscode' set
\* (round1.py 211-213, round2.py 210-212).
task_record(task_data, endpoint, status_code) ==
    [email |-> task_data.email, secret |-> task_data.secret,
     task |-> task_data.task, round |-> task_data.round,
     nonce |-> task_data.nonce, brief |-> task_data.brief,
     checks |-> task_data.checks,
     evaluation_url |-> task_data.evaluation_url,
     attachments |-> task_data.attachments,
     endpoint |-> endpoint, statuscode |-> status_code]

\* What a student endpoint holds of a task payload it received.
Token(task_data) ==
    [email |-> task_data.email, task |-> task_data.task,
     round |-> task_data.round, nonce |-> task_data.nonce]

\* send_task returns response.status_code, or None on a transport error or
\* timeout.  200 and 500 stand for the success and the non-success codes.
StatusCodes == {200, 500, NoneInt}

\* The sweep's position after the row at index i.
AfterRow(i) == IF i = Len(submissions_file) THEN 0 ELSE i + 1

\* process_submissions, loop body up to and including the POST of send_task
\* (round1.py 188-208) for the next row of the CSV, the first row when the
\* sweep is started (r1idx = 0): dedup query, generate_task, then the request
\* goes out and the student endpoint holds the payload.  now is the hour
\* bucket datetime.now() is in when the row is handled; the clock never goes
\* back.  A row with a field that is None raises AttributeError at .strip()
\* (188-190); the except clause around the whole loop (227-232) catches it
\* and process_submissions returns, the rows after it are not read.
R1Send(now) ==
    /\ r1pending = << >>
    /\ LET i == IF r1idx = 0 THEN 1 ELSE r1idx
           row == submissions_file[i]
       IN  IF row.email = NoneStr \/ row.endpoint = NoneStr
              \/ row.secret = NoneStr
           THEN /\ r1idx' = 0
                /\ UNCHANGED <<hour, nextNonce, delivered, r1pending>>
           ELSE IF task_exists(tasks, row.email, NoneTask, 1)
           THEN /\ r1idx' = AfterRow(i)
                /\ hour' = now
                /\ UNCHANGED <<nextNonce, delivered, r1pending>>
           ELSE /\ nextNonce <= MaxNonce
                /\ hour' = now
                /\ LET task_data == generate_task(row.email, row.endpoint,
                                                  row.secret, now, nextNonce)
                   IN  /\ r1pending' = <<task_record(task_data, row.endpoint,
                                                     NoneInt)>>
                       /\ delivered' = delivered \cup {Token(task_data)}
                /\ nextNonce' = nextNonce + 1
                /\ r1idx' = i
    /\ UNCHANGED <<submissions_file, tasks, repos, results, r2todo,
                   r2pending, gateSlot, gateOut, accepted>>
    /\ UNCHANGED <<retryVars, notifyVars, evalVars,
                   storeVars, buildVars, raceVars, peerVars,
                   rngVars, scoreVars, limitVars>>

\* Variant of R1Store: the record is logged only when delivery returned 200.
R1Store_OnlyDelivered(status_code, committed) ==
    /\ r1pending # << >>
    /\ tasks' = IF status_code = 200
                THEN insert_task(tasks,
                        task_record(r1pending[1], r1pending[1].endpoint,
                                    status_code),
                        committed)
                ELSE tasks
    /\ r1pending' = << >>
    /\ r1idx' = AfterRow(r1idx)
    /\ UNCHANGED <<submissions_file, repos, results, hour, nextNonce,
                   delivered,
                   r2todo, r2pending, gateSlot, gateOut, accepted>>
    /\ UNCHANGED <<retryVars, notifyVars, evalVars,
                   storeVars, buildVars, raceVars, peerVars,
                   rngVars, scoreVars, limitVars>>

\* process_submissions, rest of the loop body (round1.py 208-225): send_task
\* returns status_code, the task record is logged with insert_task.
R1Store(status_code, committed) ==
    /\ r1pending # << >>
    /\ tasks' = insert_task(tasks,
                    task_record(r1pending[1], r1pending[1].endpoint, status_code),
                    committed)
    /\ r1pending' = << >>
    /\ r1idx' = AfterRow(r1idx)
    /\ UNCHANGED <<submissions_file, repos, results, hour, nextNonce,
                   delivered,
                   r2todo, r2pending, gateSlot, gateOut, accepted>>
    /\ UNCHANGED <<retryVars, notifyVars, evalVars,
                   storeVars, buildVars, raceVars, peerVars,
                   rngVars, scoreVars, limitVars>>


(***************************************************************************)
(* TaskIssuer, round 2: round2.py Round2TaskGenerator                      *)
(***************************************************************************)
\* Round2TaskGenerator.extract_task_type: task_id.split('-')[0] if '-' in
\* task_id else task_id.
extract_task_type(task_id) ==
    IF Len(task_id) > 1 THEN <<task_id[1]>> ELSE task_id

\* The candidates random.choice picks from in generate_round2_task.
Round2Choices == 1..2

\* Round2TaskGenerator.generate_round2_task, with the random.choice index
\* and the uuid4 it draws: << >> is the None it returns when the task type
\* has no round-2 templates, <<task_data>> a generated task.
generate_round2_task(repo_data, original_task_data, choice, uuid) ==
    LET task_type == extract_task_type(original_task_data.task) IN
    IF task_type \notin DOMAIN round2_templates
    THEN << >>
    ELSE LET selected_template == round2_templates[task_type][choice] IN
         << [email |-> repo_data.email,
             secret |-> original_task_data.secret,
             task |-> original_task_data.task,
             round |-> 2, nonce |-> uuid,
             brief |-> selected_template.brief,
             checks |-> selected_template.checks,
             evaluation_url |-> EvaluationUrl,
             attachments |-> << >>] >>

\* The rows of round1_tasks whose task is the repo's task (round2.py 188-191
\* takes the first).
OriginalTasks(email, task) ==
    SelectSeq(get_tasks(tasks, email, 1), LAMBDA t : t.task = task)

\* process_round1_completions is started (round2.py 161-166): the round-1
\* repos are read once; with none on file the sweep returns at once.  Of a
\* repo row the loop reads 'email' and 'task' only.
R2Start ==
    /\ r2todo = << >>
    /\ r2pending = << >>
    /\ r2todo' = [i \in 1..Len(get_repos(repos, NoneStr, 1)) |->
                    [email |-> get_repos(repos, NoneStr, 1)[i].email,
                     task |-> get_repos(repos, NoneStr, 1)[i].task]]
    /\ UNCHANGED <<submissions_file, tasks, repos, results, hour, nextNonce,
                   delivered, r1idx, r1pending, r2pending, gateSlot, gateOut,
                   accepted>>
    /\ UNCHANGED <<retryVars, notifyVars, evalVars,
                   storeVars, buildVars, raceVars, peerVars,
                   rngVars, scoreVars, limitVars>>

\* process_round1_completions, one step of the loop.  With a POST
\* outstanding, send_task returns status_code and the record is logged
\* (round2.py 207-224).  Otherwise the body runs for the next repo up to and
\* including the POST of send_task (round2.py 173-207); a repo that is
\* skipped or fails ('continue') leaves nothing behind.
R2Step(status_code, choice, committed) ==
    /\ r2todo # << >> \/ r2pending # << >>
    /\ IF r2pending # << >>
       THEN /\ tasks' = insert_task(tasks,
                            task_record(r2pending[1], r2pending[1].endpoint,
                                        status_code),
                            committed)
            /\ r2pending' = << >>
            /\ UNCHANGED <<r2todo, nextNonce, delivered>>
       ELSE LET repo == Head(r2todo)
                original == OriginalTasks(repo.email, repo.task)
                round2_task ==
                    IF original = << >> THEN << >>
                    ELSE generate_round2_task(repo, original[1], choice,
                                              nextNonce)
            IN  /\ r2todo' = Tail(r2todo)
                /\ IF \/ task_exists(tasks, repo.email, repo.task, 2)
                      \/ original = << >>
                      \/ round2_task = << >>
                   THEN UNCHANGED <<r2pending, nextNonce, delivered>>
                   ELSE /\ nextNonce <= MaxNonce
                        /\ nextNonce' = nextNonce + 1
                        /\ r2pending' = <<task_record(round2_task[1],
                                              original[1].endpoint, NoneInt)>>
                        /\ delivered' = delivered \cup {Token(round2_task[1])}
                /\ UNCHANGED tasks
    /\ UNCHANGED <<submissions_file, repos, results, hour, r1idx, r1pending,
                   gateSlot, gateOut, accepted>>
    /\ UNCHANGED <<retryVars, notifyVars, evalVars,
                   storeVars, buildVars, raceVars, peerVars,
                   rngVars, scoreVars, limitVars>>

\* The payload retry_failed_round2_tasks builds from a stored row
\* (round2.py 254-264): the JSON columns are decoded, an empty column gives
\* the empty list.
RetryPayload(task) ==
    [email |-> task.email, secret |-> task.secret, task |-> task.task,
     round |-> task.round, nonce |-> task.nonce, brief |-> task.brief,
     checks |-> json_loads(task.checks),
     evaluation_url |-> task.evaluation_url,
     attachments |-> json_loads(task.attachments)]

\* retry_failed_round2_tasks is started (round2.py 233-246): the round-2
\* tasks are read once and those whose statuscode is not 200 (NULL
\* included) are kept; with none the sweep returns at once.
RetryStart ==
    /\ failed_tasks = << >>
    /\ failed_tasks' = SelectSeq(get_tasks(tasks, NoneStr, 2),
                                 LAMBDA task : task.statuscode # 200)
    /\ retried' = << >>
    /\ UNCHANGED <<submissions_file, tasks, repos, results, hour, nextNonce,
                   delivered, r1idx, r1pending, r2todo, r2pending, gateSlot,
                   gateOut, accepted>>
    /\ UNCHANGED <<notifyVars, evalVars, storeVars,
                   buildVars, raceVars, peerVars,
                   rngVars, scoreVars, limitVars>>

\* Variant of RetryStep: the task is re-issued with a fresh nonce, as a new
\* row.
RetryStep_Reissue(status_code) ==
    /\ failed_tasks # << >>
    /\ LET task == Head(failed_tasks)
           task_data == [RetryPayload(task) EXCEPT !.nonce = nextNonce]
       IN  /\ retried' = Append(retried,
                            [endpoint |-> task.endpoint, json |-> task_data,
                             status_code |-> status_code])
           /\ tasks' = insert_task(tasks,
                            task_record(task_data, task.endpoint, status_code),
                            TRUE)
    /\ nextNonce' = nextNonce + 1
    /\ failed_tasks' = Tail(failed_tasks)
    /\ UNCHANGED <<submissions_file, repos, results, hour,
                   delivered, r1idx, r1pending, r2todo, r2pending, gateSlot,
                   gateOut, accepted>>
    /\ UNCHANGED <<notifyVars, evalVars, storeVars,
                   buildVars, raceVars, peerVars,
                   rngVars, scoreVars, limitVars>>

\* retry_failed_round2_tasks, one turn of the loop (round2.py 250-277): the
\* payload is posted to the stored endpoint, send_task returns status_code,
\* and nothing is written: the code has no update of the Task row.
RetryStep(status_code) ==
    /\ failed_tasks # << >>
    /\ LET task == Head(failed_tasks)
           task_data == RetryPayload(task)
       IN  retried' = Append(retried,
                         [endpoint |-> task.endpoint, json |-> task_data,
                          status_code |-> status_code])
    /\ failed_tasks' = Tail(failed_tasks)
    /\ UNCHANGED <<submissions_file, tasks, repos, results, hour, nextNonce,
                   delivered, r1idx, r1pending, r2todo, r2pending, gateSlot,
                   gateOut, accepted>>
    /\ UNCHANGED <<notifyVars, evalVars, storeVars,
                   buildVars, raceVars, peerVars,
                   rngVars, scoreVars, limitVars>>

(***************************************************************************)
(* SubmissionGate: evaluation_api.py receive_notification                  *)
(***************************************************************************)
required_fields ==
    <<"email", "task", "round", "nonce", "repo_url", "commit_sha", "pages_url">>

AllFields == {required_fields[i] : i \in 1..Len(required_fields)}

\* The first field of required_fields that the request lacks.
FirstMissing(has) ==
    required_fields[CHOOSE i \in 1..Len(required_fields) :
        /\ required_fields[i] \notin has
        /\ \A j \in 1..(i - 1) : required_fields[j] \in has]

\* The JSON bodies posted to /api/notify: has is the set of keys present.
Artifacts == 1..2

Request(has, email, task, round, nonce, k) ==
    [has |-> has, email |-> email, task |-> task, round |-> round,
     nonce |-> nonce,
     repo_url |-> IF k = 1 THEN "repo1" ELSE "repo2",
     commit_sha |-> IF k = 1 THEN "sha1" ELSE "sha2",
     pages_url |-> IF k = 1 THEN "pages1" ELSE "pages2"]

\* Nonce 0 was never issued; the others are the nonces minted so far.
FullRequests ==
    {Request(AllFields, e, t, r, n, k) :
        e \in Emails, t \in TaskIds, r \in 0..2,
        n \in 0..(nextNonce - 1), k \in Artifacts}

PartialRequests ==
    {Request(h, "a@x.edu", Append(CaptchaSolver, "f239c"), 1, 0, 1) :
        h \in {{}, AllFields \ {"task", "nonce"}}}

\* The HTTP status of a response and, for 'Missing required field: f', f.
Response(code, field) == [code |-> code, field |-> field]

\* No response is on its way to a client.
NoResponse == Response(0, "")

\* Variant of MatchingTasks: a Task whose nonce a stored Submission carries
\* does not match.
MatchingTasks_SingleUse(data) ==
    SelectSeq(get_tasks(tasks, data.email, data.round), LAMBDA task :
        /\ task.task = data.task /\ task.nonce = data.nonce
        /\ ~\E i \in 1..Len(repos) : repos[i].nonce = data.nonce)

\* The scan of receive_notification (evaluation_api.py 30-37): the Tasks of
\* (email, round) whose task and nonce are those of the request.
MatchingTasks(data) ==
    SelectSeq(get_tasks(tasks, data.email, data.round), LAMBDA task :
        task.task = data.task /\ task.nonce = data.nonce)

\* Variant of GateReceive: the Submission is written before the match check.
GateReceive_StoreFirst(data) ==
    /\ gateSlot = << >>
    /\ gateOut = NoResponse
    /\ IF data.has = {}
       THEN /\ gateOut' = Response(400, "")
            /\ UNCHANGED <<gateSlot, repos>>
       ELSE IF data.has # AllFields
       THEN /\ gateOut' = Response(400, FirstMissing(data.has))
            /\ UNCHANGED <<gateSlot, repos>>
       ELSE IF MatchingTasks(data) = << >>
       THEN /\ gateOut' = Response(400, "")
            /\ repos' = InsertOrReplace(repos,
                            [email |-> data.email, task |-> data.task,
                             round |-> data.round, nonce |-> data.nonce,
                             repo_url |-> data.repo_url,
                             commit_sha |-> data.commit_sha,
                             pages_url |-> data.pages_url])
            /\ UNCHANGED gateSlot
       ELSE /\ \/ Len(repos) < MaxRepos
               \/ \E i \in 1..Len(repos) : SameKey(repos[i], data)
            /\ gateSlot' = <<data>>
            /\ UNCHANGED <<gateOut, repos>>
    /\ UNCHANGED <<submissions_file, tasks, results, hour, nextNonce,
                   delivered, r1idx, r1pending, r2todo, r2pending, accepted>>
    /\ UNCHANGED <<retryVars, notifyVars, evalVars,
                   storeVars, buildVars, raceVars, peerVars,
                   rngVars, scoreVars, limitVars>>

\* receive_notification up to the match check (evaluation_api.py 18-42):
\* a rejected request is answered at once, a matched one goes on to
\* insert_repo.  The gate takes a request when the one before is answered
\* and its response has been read.
GateReceive(data) ==
    /\ gateSlot = << >>
    /\ gateOut = NoResponse
    /\ IF data.has = {}
       THEN /\ gateOut' = Response(400, "")
            /\ UNCHANGED gateSlot
       ELSE IF data.has # AllFields
       THEN /\ gateOut' = Response(400, FirstMissing(data.has))
            /\ UNCHANGED gateSlot
       ELSE IF MatchingTasks(data) = << >>
       THEN /\ gateOut' = Response(400, "")
            /\ UNCHANGED gateSlot
       ELSE /\ \/ Len(repos) < MaxRepos
               \/ \E i \in 1..Len(repos) : SameKey(repos[i], data)
            /\ gateSlot' = <<data>>
            /\ UNCHANGED gateOut
    /\ UNCHANGED <<submissions_file, tasks, repos, results, hour, nextNonce,
                   delivered,
                   r1idx, r1pending, r2todo, r2pending, accepted>>
    /\ UNCHANGED <<retryVars, notifyVars, evalVars,
                   storeVars, buildVars, raceVars, peerVars,
                   rngVars, scoreVars, limitVars>>

\* receive_notification from insert_repo on (evaluation_api.py 44-61).
\* accepted is history: for each key the notification most recently answered
\* 200, and whether the one answered 200 before it for that key carried the
\* same nonce.
GateInsert(success) ==
    /\ gateSlot # << >>
    /\ repos' = insert_repo(repos, gateSlot[1], success)
    /\ gateOut' = IF success
                  THEN Response(200, "")
                  ELSE Response(500, "")
    /\ accepted' = IF success
                   THEN {a \in accepted : ~SameKey(a.data, gateSlot[1])}
                            \cup {[data |-> gateSlot[1],
                                   again |-> \E a \in accepted :
                                       /\ SameKey(a.data, gateSlot[1])
                                       /\ a.data.nonce = gateSlot[1].nonce]}
                   ELSE accepted
    /\ gateSlot' = << >>
    /\ UNCHANGED <<submissions_file, tasks, results, hour, nextNonce,
                   delivered,
                   r1idx, r1pending, r2todo, r2pending>>
    /\ UNCHANGED <<retryVars, notifyVars, evalVars,
                   storeVars, buildVars, raceVars, peerVars,
                   rngVars, scoreVars, limitVars>>

\* The client reads the response of its request.
GateReply ==
    /\ gateOut # NoResponse
    /\ gateOut' = NoResponse
    /\ UNCHANGED <<submissions_file, tasks, repos, results, hour, nextNonce,
                   delivered, r1idx, r1pending, r2todo, r2pending, gateSlot,
                   accepted>>
    /\ UNCHANGED <<retryVars, notifyVars, evalVars,
                   storeVars, buildVars, raceVars, peerVars,
                   rngVars, scoreVars, limitVars>>

\* The request threads of the gate's server.
Workers == 1..2

\* receive_notification up to the match check, run by thread w: the same
\* validation and scan as GateReceive; the response to the request before
\* has been read.
WorkerReceive(w, data) ==
    /\ workerSlot[w] = << >>
    /\ IF data.has = {}
       THEN /\ workerOut' = [workerOut EXCEPT ![w] = Response(400, "")]
            /\ UNCHANGED workerSlot
       ELSE IF data.has # AllFields
       THEN /\ workerOut' = [workerOut EXCEPT
                                ![w] = Response(400, FirstMissing(data.has))]
            /\ UNCHANGED workerSlot
       ELSE IF MatchingTasks(data) = << >>
       THEN /\ workerOut' = [workerOut EXCEPT ![w] = Response(400, "")]
            /\ UNCHANGED workerSlot
       ELSE /\ workerSlot' = [workerSlot EXCEPT ![w] = <<data>>]
            /\ workerOut' = [workerOut EXCEPT ![w] = NoResponse]
    /\ UNCHANGED repos
    /\ UNCHANGED <<submissions_file, tasks, results, hour, nextNonce,
                   delivered, r1idx, r1pending, r2todo, r2pending,
                   gateSlot, gateOut, accepted>>
    /\ UNCHANGED <<retryVars, notifyVars, evalVars,
                   storeVars, buildVars, peerVars,
                   rngVars, scoreVars, limitVars>>

\* Variant of WorkerInsert: the Submission is added with a plain INSERT.
WorkerInsert_Append(w, success) ==
    /\ workerSlot[w] # << >>
    /\ repos' = IF success
                THEN Append(repos, insert_repo(<< >>, workerSlot[w][1],
                                               TRUE)[1])
                ELSE repos
    /\ workerOut' = [workerOut EXCEPT
                       ![w] = IF success THEN Response(200, "")
                              ELSE Response(500, "")]
    /\ workerSlot' = [workerSlot EXCEPT ![w] = << >>]
    /\ UNCHANGED <<submissions_file, tasks, results, hour, nextNonce,
                   delivered, r1idx, r1pending, r2todo, r2pending,
                   gateSlot, gateOut, accepted>>
    /\ UNCHANGED <<retryVars, notifyVars, evalVars,
                   storeVars, buildVars, peerVars,
                   rngVars, scoreVars, limitVars>>

\* receive_notification from insert_repo on, run by thread w.  The INSERT OR
\* REPLACE and its commit are one sqlite transaction; a thread that cannot
\* get the write lock in time has its insert_repo return False.
WorkerInsert(w, success) ==
    /\ workerSlot[w] # << >>
    /\ repos' = insert_repo(repos, workerSlot[w][1], success)
    /\ workerOut' = [workerOut EXCEPT
                       ![w] = IF success THEN Response(200, "")
                              ELSE Response(500, "")]
    /\ workerSlot' = [workerSlot EXCEPT ![w] = << >>]
    /\ UNCHANGED <<submissions_file, tasks, results, hour, nextNonce,
                   delivered, r1idx, r1pending, r2todo, r2pending,
                   gateSlot, gateOut, accepted>>
    /\ UNCHANGED <<retryVars, notifyVars, evalVars,
                   storeVars, buildVars, peerVars,
                   rngVars, scoreVars, limitVars>>

(***************************************************************************)
(* RetryNotifier: student_api/app.py notify_evaluation_api                 *)
(***************************************************************************)

\* The default of the max_retries parameter, the only value it is called
\* with (build_application).
max_retries == 5

\* The evaluation_url values of a build request: build_application demands
\* the field, not a non-empty value.
EvaluationUrls == {"", "https://eval.example/api/notify"}

\* What a POST to the evaluation_url gives: a status code of the gate
\* (200, 400 for a rejected notification, 500 for a store fault), NoneInt
\* when requests.post raised (transport error, timeout).
NotifyOutcomes == {200, 400, 500, NoneInt}

\* The call and the guard on the URL: a missing or empty evaluation_url
\* returns False before any attempt.
NotifyCall(url) ==
    /\ notifyPc \in {"idle", "returned"}
    /\ evaluation_url' = url
    /\ attempt' = 0
    /\ posts' = << >>
    /\ sleeps' = << >>
    /\ IF url = "" \/ url = NoneStr
       THEN notifyPc' = "returned" /\ notified' = "False"
       ELSE notifyPc' = "post" /\ notified' = "none"
    /\ UNCHANGED <<submissions_file, tasks, repos, results, hour, nextNonce,
                   delivered, r1idx, r1pending, r2todo, r2pending,
                   gateSlot, gateOut, accepted>>
    /\ UNCHANGED <<retryVars, evalVars, storeVars,
                   buildVars, raceVars, peerVars,
                   rngVars, scoreVars, limitVars>>

\* Variant of NotifyPost: a 200 does not end the loop.
NotifyPost_GoesOn(status_code) ==
    /\ notifyPc = "post"
    /\ posts' = Append(posts, status_code)
    /\ IF attempt < max_retries - 1
       THEN /\ notifyPc' = "sleep"
            /\ notified' = IF status_code = 200 THEN "True" ELSE notified
       ELSE /\ notifyPc' = "returned"
            /\ notified' = IF status_code = 200 \/ notified = "True"
                           THEN "True" ELSE "False"
    /\ UNCHANGED <<attempt, sleeps, evaluation_url>>
    /\ UNCHANGED <<submissions_file, tasks, repos, results, hour, nextNonce,
                   delivered, r1idx, r1pending, r2todo, r2pending,
                   gateSlot, gateOut, accepted>>
    /\ UNCHANGED <<retryVars, evalVars, storeVars,
                   buildVars, raceVars, peerVars,
                   rngVars, scoreVars, limitVars>>

\* One POST of the loop.  status_code is the response's code, NoneInt when
\* requests.post raised.  200 returns True; another outcome goes on to the
\* wait, or, on the last attempt, falls out of the loop and returns False.
NotifyPost(status_code) ==
    /\ notifyPc = "post"
    /\ posts' = Append(posts, status_code)
    /\ IF status_code = 200
       THEN notifyPc' = "returned" /\ notified' = "True"
       ELSE IF attempt < max_retries - 1
            THEN notifyPc' = "sleep" /\ notified' = notified
            ELSE notifyPc' = "returned" /\ notified' = "False"
    /\ UNCHANGED <<attempt, sleeps, evaluation_url>>
    /\ UNCHANGED <<submissions_file, tasks, repos, results, hour, nextNonce,
                   delivered, r1idx, r1pending, r2todo, r2pending,
                   gateSlot, gateOut, accepted>>
    /\ UNCHANGED <<retryVars, evalVars, storeVars,
                   buildVars, raceVars, peerVars,
                   rngVars, scoreVars, limitVars>>

NotifySleep_Constant ==
    /\ notifyPc = "sleep"
    /\ sleeps' = Append(sleeps, 1)
    /\ attempt' = attempt + 1
    /\ notifyPc' = "post"
    /\ UNCHANGED <<posts, notified, evaluation_url>>
    /\ UNCHANGED <<submissions_file, tasks, repos, results, hour, nextNonce,
                   delivered, r1idx, r1pending, r2todo, r2pending,
                   gateSlot, gateOut, accepted>>
    /\ UNCHANGED <<retryVars, evalVars, storeVars,
                   buildVars, raceVars, peerVars,
                   rngVars, scoreVars, limitVars>>

\* The wait after a failed attempt that is not the last: delay = 2 ** attempt
\* seconds, then the next turn of the loop.
NotifySleep ==
    /\ notifyPc = "sleep"
    /\ sleeps' = Append(sleeps, 2 ^ attempt)
    /\ attempt' = attempt + 1
    /\ notifyPc' = "post"
    /\ UNCHANGED <<posts, notified, evaluation_url>>
    /\ UNCHANGED <<submissions_file, tasks, repos, results, hour, nextNonce,
                   delivered, r1idx, r1pending, r2todo, r2pending,
                   gateSlot, gateOut, accepted>>
    /\ UNCHANGED <<retryVars, evalVars, storeVars,
                   buildVars, raceVars, peerVars,
                   rngVars, scoreVars, limitVars>>

(***************************************************************************)
(* Builder: student_api/app.py build_application                           *)
(***************************************************************************)
build_required_fields ==
    <<"email", "secret", "task", "round", "nonce", "brief", "evaluation_url">>

BuildFields ==
    {build_required_fields[i] : i \in 1..Len(build_required_fields)}

\* os.getenv('STUDENT_SECRET') of the student's server.
STUDENT_SECRET == "secret-b"

verify_secret(provided_secret) == provided_secret = STUDENT_SECRET

\* The JSON bodies posted to /api/build: has is the set of keys present.
BuildRequests ==
    {[has |-> h, email |-> "b@x.edu", secret |-> s,
      task |-> generate_task_id(TodoManager, get_templates[TodoManager].brief,
                                get_templates[TodoManager].attachments),
      round |-> 1, nonce |-> 1, evaluation_url |-> u] :
        h \in {BuildFields, BuildFields \ {"brief"}},
        s \in {STUDENT_SECRET, "secret-a"},
        u \in EvaluationUrls}

\* repo_name = task + '-' + md5(email)[:8]: one name per (task, email).
RepoName(data) == [task |-> data.task, email |-> data.email]

\* The answer of /api/build: the HTTP status, 'status' and
\* 'evaluation_notified' of the body (an error body has neither).
BuildResponse(code, status, evaluation_notified) ==
    [code |-> code, status |-> status,
     evaluation_notified |-> evaluation_notified]

NoBuildResponse == BuildResponse(0, "", FALSE)

\* What the GitHub side of the build meets: the client is configured and the
\* calls succeed, GITHUB_TOKEN is not set, or create_repo raises.
GithubOutcomes == {"ok", "unconfigured", "error"}

\* Variant of BuildReceive: the repository is created before the secret is
\* verified.
BuildReceive_CreateFirst(data, github) ==
    /\ buildSlot = << >>
    /\ notifyPc = "idle"
    /\ IF data.has # BuildFields
       THEN /\ buildOut' = BuildResponse(400, "", FALSE)
            /\ UNCHANGED <<buildSlot, deployed>>
       ELSE IF github # "ok"
       THEN /\ buildOut' = BuildResponse(500, "", FALSE)
            /\ UNCHANGED <<buildSlot, deployed>>
       ELSE IF ~verify_secret(data.secret)
       THEN /\ buildOut' = BuildResponse(401, "", FALSE)
            /\ deployed' = deployed \cup {RepoName(data)}
            /\ UNCHANGED buildSlot
       ELSE /\ deployed' = deployed \cup {RepoName(data)}
            /\ buildSlot' = <<data>>
            /\ buildOut' = NoBuildResponse
    /\ UNCHANGED <<submissions_file, tasks, repos, results, hour, nextNonce,
                   delivered, r1idx, r1pending, r2todo, r2pending,
                   gateSlot, gateOut, accepted>>
    /\ UNCHANGED <<retryVars, notifyVars, evalVars,
                   storeVars, raceVars, peerVars,
                   rngVars, scoreVars, limitVars>>

\* build_application up to the notification (app.py 319-395): validation,
\* secret, GitHub client, then the repository is created, filled and
\* deployed.  An exception is answered 500 by the handler's except clause.
BuildReceive(data, github) ==
    /\ buildSlot = << >>
    /\ notifyPc = "idle"
    /\ IF data.has # BuildFields
       THEN /\ buildOut' = BuildResponse(400, "", FALSE)
            /\ UNCHANGED <<buildSlot, deployed>>
       ELSE IF ~verify_secret(data.secret)
       THEN /\ buildOut' = BuildResponse(401, "", FALSE)
            /\ UNCHANGED <<buildSlot, deployed>>
       ELSE IF github # "ok"
       THEN /\ buildOut' = BuildResponse(500, "", FALSE)
            /\ UNCHANGED <<buildSlot, deployed>>
       ELSE /\ deployed' = deployed \cup {RepoName(data)}
            /\ buildSlot' = <<data>>
            /\ buildOut' = NoBuildResponse
    /\ UNCHANGED <<submissions_file, tasks, repos, results, hour, nextNonce,
                   delivered, r1idx, r1pending, r2todo, r2pending,
                   gateSlot, gateOut, accepted>>
    /\ UNCHANGED <<retryVars, notifyVars, evalVars,
                   storeVars, raceVars, peerVars,
                   rngVars, scoreVars, limitVars>>

\* build_application calls notify_evaluation_api(notification_data)
\* (app.py 386-399).
BuildNotify ==
    /\ buildSlot # << >>
    /\ notifyPc = "idle"
    /\ NotifyCall(buildSlot[1].evaluation_url)

\* Variant of BuildRespond: a failed notification is answered 500 and the
\* repository is deleted.
BuildRespond_Rollback ==
    /\ buildSlot # << >>
    /\ notifyPc = "returned"
    /\ IF notified = "True"
       THEN /\ buildOut' = BuildResponse(200, "success", TRUE)
            /\ deployed' = deployed
       ELSE /\ buildOut' = BuildResponse(500, "", FALSE)
            /\ deployed' = deployed \ {RepoName(buildSlot[1])}
    /\ buildSlot' = << >>
    /\ notifyPc' = "idle"
    /\ UNCHANGED <<attempt, posts, sleeps, notified, evaluation_url>>
    /\ UNCHANGED <<submissions_file, tasks, repos, results, hour, nextNonce,
                   delivered, r1idx, r1pending, r2todo, r2pending,
                   gateSlot, gateOut, accepted>>
    /\ UNCHANGED <<retryVars, evalVars, storeVars,
                   raceVars, peerVars,
                   rngVars, scoreVars, limitVars>>

\* notify_evaluation_api has returned: the handler answers 200 with status
\* 'success' and evaluation_notified set to the returned value
\* (app.py 401-412).
BuildRespond ==
    /\ buildSlot # << >>
    /\ notifyPc = "returned"
    /\ buildOut' = BuildResponse(200, "success", notified = "True")
    /\ buildSlot' = << >>
    /\ notifyPc' = "idle"
    /\ UNCHANGED <<attempt, posts, sleeps, notified, evaluation_url>>
    /\ UNCHANGED deployed
    /\ UNCHANGED <<submissions_file, tasks, repos, results, hour, nextNonce,
                   delivered, r1idx, r1pending, r2todo, r2pending,
                   gateSlot, gateOut, accepted>>
    /\ UNCHANGED <<retryVars, evalVars, storeVars,
                   raceVars, peerVars,
                   rngVars, scoreVars, limitVars>>

(***************************************************************************)
(* EvaluationPipeline: evaluate.py RepositoryEvaluator                     *)
(***************************************************************************)

\* What a check meets.  clone_repository: git exits 0 ("ok"), git exits
\* non-zero (CalledProcessError, "failed"), or subprocess.run raises
\* something else, e.g. FileNotFoundError when there is no git ("raised").
CloneOutcomes == {"ok", "failed", "raised"}
LicenseOutcomes == {"found", "unreadable"}
ReadmeOutcomes == {"scored", "unreadable"}
CodeOutcomes == {"scored", "unparsable"}
DynamicOutcomes == {"scored", "browser_error"}

\* The (score, reason) pair of each check; a fault inside the check is
\* caught there.  Scores are in tenths.
check_mit_license(outcome) ==
    IF outcome = "found"
    THEN [score |-> 10, reason |-> "MIT license found"]
    ELSE [score |-> 0, reason |-> "MIT license not found"]

check_readme_quality(outcome) ==
    IF outcome = "scored"
    THEN [score |-> 10, reason |-> "LLM evaluation"]
    ELSE [score |-> 0, reason |-> "Error reading README.md"]

check_code_quality(outcome) ==
    IF outcome = "scored"
    THEN [score |-> 10, reason |-> "LLM code evaluation"]
    ELSE [score |-> 5, reason |-> "LLM response parsing error"]

check_pages_accessibility(status_code) ==
    IF status_code = 200
    THEN [score |-> 10, reason |-> "Pages accessible"]
    ELSE IF status_code = NoneInt
         THEN [score |-> 0, reason |-> "Pages accessibility error"]
         ELSE [score |-> 0, reason |-> "Pages not accessible"]

dynamic_check_playwright(outcome) ==
    IF outcome = "scored"
    THEN [score |-> 10, reason |-> "Dynamic checks passed"]
    ELSE [score |-> 0, reason |-> "Dynamic check error"]

\* The dict evaluate_repository appends to results for a check.
ResultRow(repo_data, check_name, checked) ==
    [email |-> repo_data.email, task |-> repo_data.task,
     round |-> repo_data.round, repo_url |-> repo_data.repo_url,
     commit_sha |-> repo_data.commit_sha, pages_url |-> repo_data.pages_url,
     check_name |-> check_name, score |-> checked.score,
     reason |-> checked.reason, logs |-> ""]

\* evaluate_all_repositories reads the repos table.
EvalAllStart ==
    /\ evalPc = "idle"
    /\ evalQueue = << >>
    /\ passes < MaxPasses
    /\ evalQueue' = get_repos(repos, NoneStr, NoneInt)
    /\ UNCHANGED <<evalPc, evalResults, temp_dirs, passes, evalExit, results>>
    /\ UNCHANGED <<submissions_file, tasks, repos, hour, nextNonce,
                   delivered, r1idx, r1pending, r2todo, r2pending,
                   gateSlot, gateOut, accepted>>
    /\ UNCHANGED <<retryVars, notifyVars, storeVars,
                   buildVars, raceVars, peerVars,
                   rngVars, scoreVars, limitVars>>

\* evaluate_repository is entered for the next Submission: results = [] and
\* tempfile.TemporaryDirectory() makes a directory of its own, named here by
\* the number of the call.
EvalBegin ==
    /\ evalPc = "idle"
    /\ evalQueue # << >>
    /\ passes < MaxPasses
    /\ passes' = passes + 1
    /\ temp_dirs' = temp_dirs \cup {passes + 1}
    /\ evalResults' = << >>
    /\ evalExit' = "none"
    /\ evalPc' = "clone"
    /\ UNCHANGED <<evalQueue, results>>
    /\ UNCHANGED <<submissions_file, tasks, repos, hour, nextNonce,
                   delivered, r1idx, r1pending, r2todo, r2pending,
                   gateSlot, gateOut, accepted>>
    /\ UNCHANGED <<retryVars, notifyVars, storeVars,
                   buildVars, raceVars, peerVars,
                   rngVars, scoreVars, limitVars>>

\* Variant of EvalArtifacts: an unreadable README ends the checks on the
\* working copy, the code check is not run.
EvalArtifacts_AbortOnFault(clone, license, readme, code) ==
    /\ evalPc = "clone"
    /\ "git" \notin silent
    /\ temp_dirs' = temp_dirs \ {passes}
    /\ LET repo_data == Head(evalQueue)
       IN  IF clone = "raised"
           THEN /\ evalResults' = << >>
                /\ evalExit' = "raised"
                /\ evalQueue' = Tail(evalQueue)
                /\ evalPc' = "idle"
           ELSE /\ evalResults' =
                     IF clone = "ok"
                     THEN <<ResultRow(repo_data, "MIT License",
                                      check_mit_license(license)),
                            ResultRow(repo_data, "README Quality",
                                      check_readme_quality(readme))>>
                          \o IF readme = "scored"
                             THEN <<ResultRow(repo_data, "Code Quality",
                                              check_code_quality(code))>>
                             ELSE << >>
                     ELSE <<ResultRow(repo_data, "Repository Access",
                                [score |-> 0,
                                 reason |-> "Failed to clone repository"])>>
                /\ evalPc' = "pages"
                /\ UNCHANGED <<evalQueue, evalExit>>
    /\ UNCHANGED <<passes, results>>
    /\ UNCHANGED <<submissions_file, tasks, repos, hour, nextNonce,
                   delivered, r1idx, r1pending, r2todo, r2pending,
                   gateSlot, gateOut, accepted>>
    /\ UNCHANGED <<retryVars, notifyVars, storeVars,
                   buildVars, raceVars, peerVars,
                   rngVars, scoreVars, limitVars>>

\* Variant of EvalArtifacts: the directory is removed where the block is
\* left normally, and stays when clone_repository raises.
EvalArtifacts_KeepOnRaise(clone, license, readme, code) ==
    /\ evalPc = "clone"
    /\ "git" \notin silent
    /\ LET repo_data == Head(evalQueue)
       IN  IF clone = "raised"
           THEN /\ evalResults' = << >>
                /\ evalExit' = "raised"
                /\ evalQueue' = Tail(evalQueue)
                /\ evalPc' = "idle"
                /\ temp_dirs' = temp_dirs
           ELSE /\ evalResults' =
                     IF clone = "ok"
                     THEN <<ResultRow(repo_data, "MIT License",
                                      check_mit_license(license)),
                            ResultRow(repo_data, "README Quality",
                                      check_readme_quality(readme)),
                            ResultRow(repo_data, "Code Quality",
                                      check_code_quality(code))>>
                     ELSE <<ResultRow(repo_data, "Repository Access",
                                [score |-> 0,
                                 reason |-> "Failed to clone repository"])>>
                /\ evalPc' = "pages"
                /\ temp_dirs' = temp_dirs \ {passes}
                /\ UNCHANGED <<evalQueue, evalExit>>
    /\ UNCHANGED <<passes, results>>
    /\ UNCHANGED <<submissions_file, tasks, repos, hour, nextNonce,
                   delivered, r1idx, r1pending, r2todo, r2pending,
                   gateSlot, gateOut, accepted>>
    /\ UNCHANGED <<retryVars, notifyVars, storeVars,
                   buildVars, raceVars, peerVars,
                   rngVars, scoreVars, limitVars>>

\* subprocess.run is called without a timeout: it returns when git exits, and
\* git does not exit while the remote it clones from stays silent.
\* The with block of evaluate_repository (319-381): the clone and, when it
\* succeeded, the three checks on the working copy; a failed clone gives the
\* single 'Repository Access' row.  Leaving the block removes the directory,
\* also when clone_repository raises; the exception then leaves
\* evaluate_repository and evaluate_all_repositories goes on to the next
\* Submission.
EvalArtifacts(clone, license, readme, code) ==
    /\ evalPc = "clone"
    /\ "git" \notin silent
    /\ temp_dirs' = temp_dirs \ {passes}
    /\ LET repo_data == Head(evalQueue)
       IN  IF clone = "raised"
           THEN /\ evalResults' = << >>
                /\ evalExit' = "raised"
                /\ evalQueue' = Tail(evalQueue)
                /\ evalPc' = "idle"
           ELSE /\ evalResults' =
                     IF clone = "ok"
                     THEN <<ResultRow(repo_data, "MIT License",
                                      check_mit_license(license)),
                            ResultRow(repo_data, "README Quality",
                                      check_readme_quality(readme)),
                            ResultRow(repo_data, "Code Quality",
                                      check_code_quality(code))>>
                     ELSE <<ResultRow(repo_data, "Repository Access",
                                [score |-> 0,
                                 reason |-> "Failed to clone repository"])>>
                /\ evalPc' = "pages"
                /\ UNCHANGED <<evalQueue, evalExit>>
    /\ UNCHANGED <<passes, results>>
    /\ UNCHANGED <<submissions_file, tasks, repos, hour, nextNonce,
                   delivered, r1idx, r1pending, r2todo, r2pending,
                   gateSlot, gateOut, accepted>>
    /\ UNCHANGED <<retryVars, notifyVars, storeVars,
                   buildVars, raceVars, peerVars,
                   rngVars, scoreVars, limitVars>>

\* Variant of EvalPages: the dynamic check follows whatever the fetch gave.
EvalPages_AlwaysDynamic(status_code) ==
    /\ evalPc = "pages"
    /\ "pages" \in silent => status_code = NoneInt
    /\ evalResults' = Append(evalResults,
            ResultRow(Head(evalQueue), "Pages Accessibility",
                      check_pages_accessibility(status_code)))
    /\ evalPc' = "dynamic"
    /\ UNCHANGED <<evalQueue, temp_dirs, passes, evalExit, results>>
    /\ UNCHANGED <<submissions_file, tasks, repos, hour, nextNonce,
                   delivered, r1idx, r1pending, r2todo, r2pending,
                   gateSlot, gateOut, accepted>>
    /\ UNCHANGED <<retryVars, notifyVars, storeVars,
                   buildVars, raceVars, peerVars,
                   rngVars, scoreVars, limitVars>>

\* The reachability check (383-396) and the branch on it (399).  status_code
\* is the code of the fetch, NoneInt when requests.get raised, as it does
\* after timeout=10 when the host stays silent.
EvalPages(status_code) ==
    /\ evalPc = "pages"
    /\ "pages" \in silent => status_code = NoneInt
    /\ evalResults' = Append(evalResults,
            ResultRow(Head(evalQueue), "Pages Accessibility",
                      check_pages_accessibility(status_code)))
    /\ evalPc' = IF status_code = 200 THEN "dynamic" ELSE "store"
    /\ UNCHANGED <<evalQueue, temp_dirs, passes, evalExit, results>>
    /\ UNCHANGED <<submissions_file, tasks, repos, hour, nextNonce,
                   delivered, r1idx, r1pending, r2todo, r2pending,
                   gateSlot, gateOut, accepted>>
    /\ UNCHANGED <<retryVars, notifyVars, storeVars,
                   buildVars, raceVars, peerVars,
                   rngVars, scoreVars, limitVars>>

\* The dynamic check (400-412); page.goto(pages_url, timeout=30000) raises
\* when the host stays silent.
EvalDynamic(outcome) ==
    /\ evalPc = "dynamic"
    /\ "pages" \in silent => outcome = "browser_error"
    /\ evalResults' = Append(evalResults,
            ResultRow(Head(evalQueue), "Dynamic Functionality",
                      dynamic_check_playwright(outcome)))
    /\ evalPc' = "store"
    /\ UNCHANGED <<evalQueue, temp_dirs, passes, evalExit, results>>
    /\ UNCHANGED <<submissions_file, tasks, repos, hour, nextNonce,
                   delivered, r1idx, r1pending, r2todo, r2pending,
                   gateSlot, gateOut, accepted>>
    /\ UNCHANGED <<retryVars, notifyVars, storeVars,
                   buildVars, raceVars, peerVars,
                   rngVars, scoreVars, limitVars>>

\* The table after insert_result for each row of the list, in order.
RECURSIVE StoreResults(_, _, _)
StoreResults(tbl, rows, committed) ==
    IF rows = << >>
    THEN tbl
    ELSE StoreResults(insert_result(tbl, Head(rows), committed),
                      Tail(rows), committed)

\* The loop over results (415-416) and the return.  The return value of
\* insert_result is not looked at.  committed is the condition of the store
\* during the loop: it takes the writes of the pass or refuses them.
EvalStore(committed) ==
    /\ evalPc = "store"
    /\ results' = StoreResults(results, evalResults, committed)
    /\ evalExit' = "returned"
    /\ evalQueue' = Tail(evalQueue)
    /\ evalPc' = "idle"
    /\ UNCHANGED <<evalResults, temp_dirs, passes>>
    /\ UNCHANGED <<submissions_file, tasks, repos, hour, nextNonce,
                   delivered, r1idx, r1pending, r2todo, r2pending,
                   gateSlot, gateOut, accepted>>
    /\ UNCHANGED <<retryVars, notifyVars, storeVars,
                   buildVars, raceVars, peerVars,
                   rngVars, scoreVars, limitVars>>

(***************************************************************************)
(* The system                                                              *)
(***************************************************************************)
Init ==
    /\ submissions_file \in SubmissionsFiles
    /\ tasks = << >>
    /\ repos = << >>
    /\ results = << >>
    /\ hour = 0
    /\ nextNonce = 1
    /\ delivered = {}
    /\ r1idx = 0
    /\ r1pending = << >>
    /\ r2todo = << >>
    /\ r2pending = << >>
    /\ gateSlot = << >>
    /\ gateOut = NoResponse
    /\ accepted = {}
    /\ failed_tasks = << >>
    /\ retried = << >>
    /\ notifyPc = "idle"
    /\ attempt = 0
    /\ posts = << >>
    /\ sleeps = << >>
    /\ notified = "none"
    /\ evaluation_url = NoneStr
    /\ evalQueue = << >>
    /\ evalPc = "idle"
    /\ evalResults = << >>
    /\ temp_dirs = {}
    /\ passes = 0
    /\ evalExit = "none"
    /\ submissions = << >>
    /\ storeOut = NoCall
    /\ buildSlot = << >>
    /\ buildOut = NoBuildResponse
    /\ deployed = {}
    /\ workerSlot = [w \in Workers |-> << >>]
    /\ workerOut = [w \in Workers |-> NoResponse]
    /\ silent = {}
    /\ RngIdle
    /\ ScoreIdle
    /\ LimiterIdle

Next ==
    \/ \E now \in hour..MaxHour : R1Send(now)
    \/ \E status_code \in StatusCodes, committed \in BOOLEAN :
          R1Store(status_code, committed)
    \/ R2Start
    \/ \E status_code \in StatusCodes, choice \in Round2Choices,
          committed \in BOOLEAN : R2Step(status_code, choice, committed)
    \/ \E data \in FullRequests \cup PartialRequests : GateReceive(data)
    \/ \E success \in BOOLEAN : GateInsert(success)
    \/ GateReply

Spec == Init /\ [][Next]_vars

\* The sweeps and the gate at rest, the retry sweep, the notifier and the
\* evaluator not started.
IssuerGateIdle ==
    /\ hour = 0
    /\ r1idx = 0
    /\ r1pending = << >>
    /\ r2todo = << >>
    /\ r2pending = << >>
    /\ gateSlot = << >>
    /\ gateOut = NoResponse

RetryIdle == failed_tasks = << >> /\ retried = << >>

NotifyIdle ==
    /\ notifyPc = "idle" /\ attempt = 0 /\ posts = << >> /\ sleeps = << >>
    /\ notified = "none"
    /\ evaluation_url = NoneStr

RaceIdle ==
    /\ workerSlot = [w \in Workers |-> << >>]
    /\ workerOut = [w \in Workers |-> NoResponse]

BuildIdle ==
    buildSlot = << >> /\ buildOut = NoBuildResponse /\ deployed = {}

StoreIdle == submissions = << >> /\ storeOut = NoCall

EvalIdle ==
    /\ evalQueue = << >>
    /\ evalPc = "idle"
    /\ evalResults = << >>
    /\ temp_dirs = {}
    /\ passes = 0
    /\ evalExit = "none"

\* The round-1 sweep alone, with every delivery outcome and store outcome.
NextIssuance ==
    \/ \E now \in hour..MaxHour : R1Send(now)
    \/ \E status_code \in StatusCodes, committed \in BOOLEAN :
          R1Store(status_code, committed)

SpecIssuance == Init /\ [][NextIssuance]_vars

\* The whole system with every delivery answered 200.  The status code
\* send_task returns goes into the statuscode column of the Task row and
\* nowhere else: none of these actions reads the column.
NextDelivered ==
    \/ \E now \in hour..MaxHour : R1Send(now)
    \/ \E committed \in BOOLEAN : R1Store(200, committed)
    \/ R2Start
    \/ \E choice \in Round2Choices, committed \in BOOLEAN :
          R2Step(200, choice, committed)
    \/ \E data \in FullRequests \cup PartialRequests : GateReceive(data)
    \/ \E success \in BOOLEAN : GateInsert(success)
    \/ GateReply

SpecDelivered == Init /\ [][NextDelivered]_vars


\* The notifier alone: calls with either kind of URL and every outcome of
\* every POST.
NextNotifier ==
    \/ \E url \in EvaluationUrls : NotifyCall(url)
    \/ \E status_code \in NotifyOutcomes : NotifyPost(status_code)
    \/ NotifySleep

SpecNotifier == Init /\ [][NextNotifier]_vars

(***************************************************************************)
(* The round-2 retry sweep                                                 *)
(***************************************************************************)
\* The Task row of a student's round-1 task issued in hour bucket 0 with
\* nonce uuid, delivered with status 200.
Round1Row(who, uuid) ==
    insert_task(<< >>,
        task_record(generate_task(CsvRow(who).email, CsvRow(who).endpoint,
                                  CsvRow(who).secret, 0, uuid),
                    CsvRow(who).endpoint, 200),
        TRUE)[1]

\* The Task row process_round1_completions stores for a round-2 task
\* (round2.py 119-135 and 210-214): the round-1 task id and secret, round 2,
\* a candidate of the family, the endpoint of the round-1 row, the status
\* send_task returned.
Round2Row(original, choice, uuid, status_code) ==
    LET selected_template == round2_templates[FamilyOf(original.task)][choice]
    IN  insert_task(<< >>,
            task_record([email |-> original.email, secret |-> original.secret,
                         task |-> original.task, round |-> 2, nonce |-> uuid,
                         brief |-> selected_template.brief,
                         checks |-> selected_template.checks,
                         evaluation_url |-> EvaluationUrl,
                         attachments |-> << >>],
                        original.endpoint, status_code),
            TRUE)[1]

\* The tasks tables the retry sweep is run on: one or two students with
\* their round-1 and round-2 rows, every candidate and every stored round-2
\* status.
RetryStores ==
    {<<Round1Row("b", 1), Round2Row(Round1Row("b", 1), c, 2, s)>> :
        c \in Round2Choices, s \in StatusCodes}
    \cup
    {<<Round1Row("b", 1), Round1Row("a", 2),
       Round2Row(Round1Row("b", 1), c, 3, s),
       Round2Row(Round1Row("a", 2), 2, 4, t)>> :
        c \in Round2Choices, s \in StatusCodes, t \in StatusCodes}

InitRetry ==
    /\ submissions_file = <<CsvRow("b"), CsvRow("a")>>
    /\ tasks \in RetryStores
    /\ repos = << >>
    /\ results = << >>
    /\ nextNonce = Len(tasks) + 1
    /\ delivered = {}
    /\ accepted = {}
    /\ IssuerGateIdle /\ RetryIdle /\ NotifyIdle /\ EvalIdle /\ StoreIdle
    /\ BuildIdle /\ RaceIdle /\ RngIdle /\ ScoreIdle /\ LimiterIdle /\ silent = {}

NextRetry ==
    \/ RetryStart
    \/ \E status_code \in StatusCodes : RetryStep(status_code)

SpecRetry == InitRetry /\ [][NextRetry]_vars

(***************************************************************************)
(* The evaluation pipeline                                                 *)
(***************************************************************************)
\* The Submission the gate stores for a notification that carries the
\* task and the nonce of a Task row.
SubmissionOf(task, k) ==
    insert_repo(<< >>,
        Request(AllFields, task.email, task.task, task.round, task.nonce, k),
        TRUE)[1]

\* The pipeline is run on the tables the issuer and the gate leave: one or
\* two students, each with a round-1 Task and its Submission.
InitEvaluation ==
    /\ submissions_file = <<CsvRow("b"), CsvRow("a")>>
    /\ \/ /\ tasks = <<Round1Row("b", 1)>>
          /\ repos = <<SubmissionOf(Round1Row("b", 1), 1)>>
       \/ /\ tasks = <<Round1Row("b", 1), Round1Row("a", 2)>>
          /\ repos = <<SubmissionOf(Round1Row("b", 1), 1),
                       SubmissionOf(Round1Row("a", 2), 2)>>
    /\ results = << >>
    /\ nextNonce = Len(tasks) + 1
    /\ delivered = {}
    /\ accepted = {}
    /\ IssuerGateIdle /\ RetryIdle /\ NotifyIdle /\ EvalIdle /\ StoreIdle
    /\ BuildIdle /\ RaceIdle /\ RngIdle /\ ScoreIdle /\ LimiterIdle /\ silent = {}

NextEvaluation ==
    \/ EvalAllStart
    \/ EvalBegin
    \/ \E clone \in CloneOutcomes, license \in LicenseOutcomes,
          readme \in ReadmeOutcomes, code \in CodeOutcomes :
          EvalArtifacts(clone, license, readme, code)
    \/ \E status_code \in StatusCodes : EvalPages(status_code)
    \/ \E outcome \in DynamicOutcomes : EvalDynamic(outcome)
    \/ \E committed \in BOOLEAN : EvalStore(committed)

SpecEvaluation == InitEvaluation /\ [][NextEvaluation]_vars

(***************************************************************************)
(* The round-1 sweep on a file with a short line                           *)
(***************************************************************************)
BatchFiles ==
    { <<CsvRow("b"), ShortRow("c"), CsvRow("a")>>,
      <<CsvRow("b"), CsvRow("a"), ShortRow("c")>>,
      <<CsvRow("a"), ShortRow("c"), CsvRow("b")>> }

InitBatch ==
    /\ submissions_file \in BatchFiles
    /\ tasks = << >>
    /\ repos = << >>
    /\ results = << >>
    /\ nextNonce = 1
    /\ delivered = {}
    /\ accepted = {}
    /\ IssuerGateIdle /\ RetryIdle /\ NotifyIdle /\ EvalIdle /\ StoreIdle
    /\ BuildIdle /\ RaceIdle /\ RngIdle /\ ScoreIdle /\ LimiterIdle /\ silent = {}

SpecBatch == InitBatch /\ [][NextIssuance]_vars

(***************************************************************************)
(* The store called on its own                                             *)
(***************************************************************************)
\* The records the insert_* methods are called with: the task records of
\* two students, one of them with either delivery status, the notifications
\* of a student with either artifact, a reachability result of either
\* outcome, the form submissions of the two students, one with a repo_url.
TaskRecords ==
    {task_record(generate_task(CsvRow("a").email, CsvRow("a").endpoint,
                               CsvRow("a").secret, 0, 1),
                 CsvRow("a").endpoint, c) : c \in {200, 500}}
    \cup
    {task_record(generate_task(CsvRow("b").email, CsvRow("b").endpoint,
                               CsvRow("b").secret, 0, 2),
                 CsvRow("b").endpoint, c) : c \in {200}}

RepoRecords ==
    {Request(AllFields, t.email, t.task, t.round, t.nonce, k) :
        t \in {r \in TaskRecords : r.email = "b@x.edu"}, k \in Artifacts}

ResultRecords ==
    {ResultRow(SubmissionOf(Round1Row("b", 2), 1), "Pages Accessibility",
               check_pages_accessibility(c)) : c \in {200, 500}}

SubmissionRecords ==
    {CsvRow("a"),
     [CsvRow("a") EXCEPT !.endpoint = "http://a2/api/build",
                         !.secret = "secret-a2"],
     CsvRow("b") @@ [repo_url |-> "repo1"]}

InitStore ==
    /\ submissions_file = <<CsvRow("b"), CsvRow("a")>>
    /\ tasks = << >>
    /\ repos = << >>
    /\ results = << >>
    /\ nextNonce = 1
    /\ delivered = {}
    /\ accepted = {}
    /\ IssuerGateIdle /\ RetryIdle /\ NotifyIdle /\ EvalIdle /\ StoreIdle
    /\ BuildIdle /\ RaceIdle /\ RngIdle /\ ScoreIdle /\ LimiterIdle /\ silent = {}

NextStore ==
    \/ \E task_data \in TaskRecords, fault \in StoreFaults :
          CallInsertTask(task_data, fault)
    \/ \E repo_data \in RepoRecords, fault \in StoreFaults :
          CallInsertRepo(repo_data, fault)
    \/ \E result_data \in ResultRecords, fault \in StoreFaults :
          CallInsertResult(result_data, fault)
    \/ \E submission_data \in SubmissionRecords, fault \in StoreFaults :
          CallInsertSubmission(submission_data, fault)

SpecStore == InitStore /\ [][NextStore]_vars

(***************************************************************************)
(* The builder with its notifier                                           *)
(***************************************************************************)
NextBuild ==
    \/ \E data \in BuildRequests, github \in GithubOutcomes :
          BuildReceive(data, github)
    \/ BuildNotify
    \/ \E status_code \in NotifyOutcomes : NotifyPost(status_code)
    \/ NotifySleep
    \/ BuildRespond

SpecBuild == Init /\ [][NextBuild]_vars

(***************************************************************************)
(* The gate with two request threads                                       *)
(***************************************************************************)
\* The notifications of the race: the two artifacts for the Task of b@x.edu,
\* a second artifact for the Task of a@x.edu, and a notification with a
\* nonce that was never issued.
RaceRequests ==
    {Request(AllFields, Round1Row("b", 1).email, Round1Row("b", 1).task,
             1, 1, k) : k \in Artifacts}
    \cup
    {Request(AllFields, Round1Row("a", 2).email, Round1Row("a", 2).task,
             1, n, 2) : n \in {0, 2}}

\* Two students hold their round-1 Tasks; the Submission of a@x.edu is on
\* file.
InitRace ==
    /\ submissions_file = <<CsvRow("b"), CsvRow("a")>>
    /\ tasks = <<Round1Row("b", 1), Round1Row("a", 2)>>
    /\ repos = <<SubmissionOf(Round1Row("a", 2), 1)>>
    /\ results = << >>
    /\ nextNonce = 3
    /\ delivered = {}
    /\ accepted = {}
    /\ IssuerGateIdle /\ RetryIdle /\ NotifyIdle /\ EvalIdle /\ StoreIdle
    /\ BuildIdle /\ RaceIdle /\ RngIdle /\ ScoreIdle /\ LimiterIdle /\ silent = {}

NextRace ==
    \/ \E w \in Workers, data \in RaceRequests : WorkerReceive(w, data)
    \/ \E w \in Workers, success \in BOOLEAN : WorkerInsert(w, success)

SpecRace == InitRace /\ [][NextRace]_vars

(***************************************************************************)
(* The documentation check and the dynamic check called on their own       *)
(***************************************************************************)
\* The length a README has to exceed, in characters.
ReadmeLength == 500

\* The substring of three backquotes that opens a fenced code block.
Fence == "fence"

\* The substrings check_readme_quality looks for, those of the sections and
\* of the license in readme_content.lower().
ReadmeWords == {"# ", "setup", "installation", "usage", "license", "mit", Fence}

\* README.md in the cloned workspace: whether it exists and can be read, its
\* length, and which of the substrings it contains.  An empty file contains
\* none.
Readmes ==
    {[exists |-> FALSE, readable |-> FALSE, length |-> 0, words |-> {}],
     [exists |-> TRUE, readable |-> FALSE, length |-> 0, words |-> {}],
     [exists |-> TRUE, readable |-> TRUE, length |-> 0, words |-> {}]}
    \cup {[exists |-> TRUE, readable |-> TRUE, length |-> n, words |-> w] :
             n \in {ReadmeLength, ReadmeLength + 1}, w \in SUBSET ReadmeWords}

\* What openai.ChatCompletion.create does: it raises, or it answers with a
\* text whose first word is not a number, or with a number (in tenths).
OracleReplies ==
    {[kind |-> "error", value |-> 0], [kind |-> "unparsable", value |-> 0],
     [kind |-> "score", value |-> -5], [kind |-> "score", value |-> 7],
     [kind |-> "score", value |-> 15]}

Min(a, b) == IF a <= b THEN a ELSE b
Max(a, b) == IF a >= b THEN a ELSE b

\* Variant of ReadmeRubric: a README of ReadmeLength characters has an
\* adequate length.
ReadmeRubric_AtLength(readme_content) ==
    LET len == IF readme_content.length >= ReadmeLength THEN 2 ELSE 0
        heading == IF "# " \in readme_content.words THEN 2 ELSE 0
        section == IF readme_content.words
                         \cap {"setup", "installation", "usage"} # {}
                   THEN 2 ELSE 0
        license == IF readme_content.words \cap {"license", "mit"} # {}
                   THEN 2 ELSE 0
        code == IF Fence \in readme_content.words THEN 2 ELSE 0
    IN  [score |-> Min(len + heading + section + license + code, 10),
         reason |-> "Basic criteria met"]

\* check_readme_quality without the oracle (93-117): the fallback scoring.
ReadmeRubric(readme_content) ==
    LET len == IF readme_content.length > ReadmeLength THEN 2 ELSE 0
        heading == IF "# " \in readme_content.words THEN 2 ELSE 0
        section == IF readme_content.words
                         \cap {"setup", "installation", "usage"} # {}
                   THEN 2 ELSE 0
        license == IF readme_content.words \cap {"license", "mit"} # {}
                   THEN 2 ELSE 0
        code == IF Fence \in readme_content.words THEN 2 ELSE 0
    IN  [score |-> Min(len + heading + section + license + code, 10),
         reason |-> "Basic criteria met"]

\* check_readme_quality(repo_path) of an evaluator built with or without
\* the oracle.
ReadmeScore(readme, openai_available, reply) ==
    IF ~readme.exists
    THEN [score |-> 0, reason |-> "README.md not found"]
    ELSE IF ~readme.readable
    THEN [score |-> 0, reason |-> "Error reading README.md"]
    ELSE IF ~openai_available
    THEN ReadmeRubric(readme)
    ELSE IF reply.kind = "error"
    THEN [score |-> 5, reason |-> "LLM evaluation error"]
    ELSE IF reply.kind = "unparsable"
    THEN [score |-> 5, reason |-> "LLM response parsing error"]
    ELSE [score |-> Min(Max(reply.value, 0), 10), reason |-> "LLM evaluation"]

\* A call of check_readme_quality; one call is followed.
CheckReadme(readme, openai_available, reply) ==
    /\ readmeChecked = << >>
    /\ readmeChecked' =
          <<[readme |-> readme, openai_available |-> openai_available,
             reply |-> reply,
             checked |-> ReadmeScore(readme, openai_available, reply)]>>
    /\ UNCHANGED <<dynamicChecked, codeChecked, licenseChecked>>
    /\ UNCHANGED <<submissions_file, tasks, repos, results, hour, nextNonce,
                   delivered, r1idx, r1pending, r2todo, r2pending,
                   gateSlot, gateOut, accepted>>
    /\ UNCHANGED <<retryVars, notifyVars, evalVars,
                   storeVars, buildVars, raceVars, peerVars, rngVars, limitVars>>

NextReadme ==
    \E readme \in Readmes, openai_available \in BOOLEAN,
       reply \in OracleReplies :
        CheckReadme(readme, openai_available, reply)

SpecReadme == Init /\ [][NextReadme]_vars

\* The length the body text of a page has to exceed, in characters.
BodyLength == 50

\* The deployed page as the browser finds it: its title, the length of its
\* body text without the surrounding white space, whether the body shows the
\* value of the query parameter it is opened with, and how many input and
\* button elements it has.
Pages ==
    [title : {"", "App"}, body_len : {BodyLength, BodyLength + 1},
     echoes : BOOLEAN, inputs : 0..1, buttons : 0..1]

\* Where a browser call raises: nowhere; in the launch, the first
\* page.goto, wait_for_load_state, title or inner_text ("goto"); or in the
\* calls of the task-specific probe ("probe").
DynamicFaults == {"none", "goto", "probe"}

\* The repos rows the check is given: one of each task family.
DynamicTasks == {[task |-> t] : t \in TaskIds}

\* Variant of DynamicScore: a body text of BodyLength characters counts as
\* content.
DynamicScore_AtLength(playwright_available, page, task_data, fault) ==
    IF ~playwright_available
    THEN [score |-> 5, reason |-> "Playwright not available for dynamic checks"]
    ELSE IF fault = "goto"
    THEN [score |-> 0, reason |-> "Dynamic check error"]
    ELSE
    LET task_type == Head(task_data.task)
        title == IF page.title # "" THEN 3 ELSE 0
        content == IF page.body_len >= BodyLength THEN 3 ELSE 0
        probe ==
            IF task_type \in {"captcha", "weather"}
            THEN (IF page.echoes THEN 4 ELSE 0)
            ELSE IF task_type = "todo"
            THEN (IF fault # "probe" /\ page.inputs > 0 /\ page.buttons > 0
                  THEN 4 ELSE 0)
            ELSE 0
    IN  IF task_type \in {"captcha", "weather"} /\ fault = "probe"
        THEN [score |-> 0, reason |-> "Dynamic check error"]
        ELSE [score |-> Min(title + content + probe, 10),
              reason |-> "Dynamic checks passed"]

\* dynamic_check_playwright(pages_url, task_data) in full (231-303).  The
\* probe of the captcha and weather families opens the page again, and a
\* fault there reaches the outer except; the probe of the todo family
\* catches its own faults.
DynamicScore(playwright_available, page, task_data, fault) ==
    IF ~playwright_available
    THEN [score |-> 5, reason |-> "Playwright not available for dynamic checks"]
    ELSE IF fault = "goto"
    THEN [score |-> 0, reason |-> "Dynamic check error"]
    ELSE
    LET task_type == Head(task_data.task)
        title == IF page.title # "" THEN 3 ELSE 0
        content == IF page.body_len > BodyLength THEN 3 ELSE 0
        probe ==
            IF task_type \in {"captcha", "weather"}
            THEN (IF page.echoes THEN 4 ELSE 0)
            ELSE IF task_type = "todo"
            THEN (IF fault # "probe" /\ page.inputs > 0 /\ page.buttons > 0
                  THEN 4 ELSE 0)
            ELSE 0
    IN  IF task_type \in {"captcha", "weather"} /\ fault = "probe"
        THEN [score |-> 0, reason |-> "Dynamic check error"]
        ELSE [score |-> Min(title + content + probe, 10),
              reason |-> "Dynamic checks passed"]

\* A call of dynamic_check_playwright.
CheckDynamic(playwright_available, page, task_data, fault) ==
    /\ dynamicChecked' =
          <<[playwright_available |-> playwright_available, page |-> page,
             task |-> task_data.task, fault |-> fault,
             checked |-> DynamicScore(playwright_available, page, task_data,
                                      fault)]>>
    /\ UNCHANGED <<readmeChecked, codeChecked, licenseChecked>>
    /\ UNCHANGED <<submissions_file, tasks, repos, results, hour, nextNonce,
                   delivered, r1idx, r1pending, r2todo, r2pending,
                   gateSlot, gateOut, accepted>>
    /\ UNCHANGED <<retryVars, notifyVars, evalVars,
                   storeVars, buildVars, raceVars, peerVars, rngVars, limitVars>>

NextDynamic ==
    \E playwright_available \in BOOLEAN, page \in Pages,
       task_data \in DynamicTasks, fault \in DynamicFaults :
        CheckDynamic(playwright_available, page, task_data, fault)

SpecDynamic == Init /\ [][NextDynamic]_vars

\* The code files found in the workspace by the glob of check_code_quality,
\* in the order found: for each, whether it can be read.
CodeFiles == UNION {[1..n -> BOOLEAN] : n \in 0..4}

\* check_code_quality(repo_path) (156-217).
CodeScore(code_files, openai_available, reply) ==
    IF ~openai_available
    THEN [score |-> 5, reason |-> "LLM not available for code quality check"]
    ELSE IF code_files = << >>
    THEN [score |-> 0, reason |-> "No code files found"]
    ELSE IF \A i \in 1..Min(Len(code_files), 3) : ~code_files[i]
    THEN [score |-> 0, reason |-> "No readable code files"]
    ELSE IF reply.kind = "error"
    THEN [score |-> 5, reason |-> "LLM code evaluation error"]
    ELSE IF reply.kind = "unparsable"
    THEN [score |-> 5, reason |-> "LLM response parsing error"]
    ELSE [score |-> Min(Max(reply.value, 0), 10),
          reason |-> "LLM code evaluation"]

\* A call of check_code_quality.
CheckCode(code_files, openai_available, reply) ==
    /\ codeChecked' =
          <<[code_files |-> code_files, openai_available |-> openai_available,
             reply |-> reply,
             checked |-> CodeScore(code_files, openai_available, reply)]>>
    /\ UNCHANGED <<readmeChecked, dynamicChecked, licenseChecked>>
    /\ UNCHANGED <<submissions_file, tasks, repos, results, hour, nextNonce,
                   delivered, r1idx, r1pending, r2todo, r2pending,
                   gateSlot, gateOut, accepted>>
    /\ UNCHANGED <<retryVars, notifyVars, evalVars,
                   storeVars, buildVars, raceVars, peerVars, rngVars, limitVars>>

NextCode ==
    \E code_files \in CodeFiles, openai_available \in BOOLEAN,
       reply \in OracleReplies :
        CheckCode(code_files, openai_available, reply)

SpecCode == Init /\ [][NextCode]_vars

\* check_mit_license looks for these names, in this order.
license_files ==
    <<"LICENSE", "LICENSE.txt", "LICENSE.md", "license", "license.txt">>

\* The names a file of the workspace may have, and the name in lower case.
WorkspaceNames == {"LICENSE", "LICENSE.md", "license", "License", "COPYING"}

Lower(name) ==
    IF name \in {"LICENSE", "license", "License"} THEN "license"
    ELSE IF name \in {"LICENSE.md"} THEN "license.md"
    ELSE IF name \in {"LICENSE.txt", "license.txt"} THEN "license.txt"
    ELSE "copying"

\* What a file holds: a text with the letters m, i, t in a row (in any
\* case), a text without them, or bytes that are not UTF-8.
FileContents == {"mit", "other", "undecodable"}

\* A workspace: the files it holds with their contents.  A file system that
\* ignores case holds one file for the names that differ in case only.
Workspaces(case_sensitive) ==
    {w \in UNION {[names -> FileContents] : names \in SUBSET WorkspaceNames} :
        case_sensitive
        \/ \A a, b \in DOMAIN w : Lower(a) = Lower(b) => a = b}

\* Path(repo_path) / license_file: the file the path names, if any.
PathOf(w, case_sensitive, license_file) ==
    {f \in DOMAIN w :
        IF case_sensitive THEN f = license_file
        ELSE Lower(f) = Lower(license_file)}

\* check_mit_license(repo_path) (64-78), and the score evaluate_repository
\* makes of it (334).
LicenseScore(w, case_sensitive) ==
    IF \E i \in 1..Len(license_files) :
          \E f \in PathOf(w, case_sensitive, license_files[i]) : w[f] = "mit"
    THEN [score |-> 10, reason |-> "MIT license found"]
    ELSE [score |-> 0, reason |-> "MIT license not found"]

\* A call of check_mit_license; one call is followed.
CheckLicense(w, case_sensitive) ==
    /\ licenseChecked = << >>
    /\ licenseChecked' =
          <<[workspace |-> w, case_sensitive |-> case_sensitive,
             checked |-> LicenseScore(w, case_sensitive)]>>
    /\ UNCHANGED <<readmeChecked, dynamicChecked, codeChecked>>
    /\ UNCHANGED <<submissions_file, tasks, repos, results, hour, nextNonce,
                   delivered, r1idx, r1pending, r2todo, r2pending,
                   gateSlot, gateOut, accepted>>
    /\ UNCHANGED <<retryVars, notifyVars, evalVars,
                   storeVars, buildVars, raceVars, peerVars, rngVars, limitVars>>

NextLicense ==
    \E case_sensitive \in BOOLEAN :
        \E w \in Workspaces(case_sensitive) : CheckLicense(w, case_sensitive)

SpecLicense == Init /\ [][NextLicense]_vars

(***************************************************************************)
(* The chain from issuance to Submission: issuer, builder, notifier, gate  *)
(***************************************************************************)
\* The body of the issuer's POST as /api/build reads it.
BuildRequestOf(task_data) ==
    [has |-> BuildFields, email |-> task_data.email,
     secret |-> task_data.secret, task |-> task_data.task,
     round |-> task_data.round, nonce |-> task_data.nonce,
     evaluation_url |-> task_data.evaluation_url]

\* notification_data of build_application (app.py 386-395) as the gate reads
\* it.
NotificationOf(data) ==
    Request(AllFields, data.email, data.task, data.round, data.nonce, 1)

\* The issuer handles the next row and posts the task; the student's server
\* is free.
ChainSend(now) ==
    /\ buildSlot = << >>
    /\ buildOut = NoBuildResponse
    /\ R1Send(now)

\* The student's server takes the posted task into build_application.
\* create_repo raises when the repository of this task and email exists.
ChainBuild ==
    /\ r1pending # << >>
    /\ buildOut = NoBuildResponse
    /\ LET data == BuildRequestOf(r1pending[1])
       IN  BuildReceive(data, IF RepoName(data) \in deployed
                              THEN "error" ELSE "ok")

\* One POST of notify_evaluation_api, answered by receive_notification with
\* the evaluator and its store available: 200 and the Submission stored when
\* a Task matches, 400 otherwise.
ChainPost ==
    /\ buildSlot # << >>
    /\ notifyPc = "post"
    /\ LET data == NotificationOf(buildSlot[1])
           status_code == IF MatchingTasks(data) # << >> THEN 200 ELSE 400
       IN  /\ repos' = IF status_code = 200
                       THEN insert_repo(repos, data, TRUE)
                       ELSE repos
           /\ posts' = Append(posts, status_code)
           /\ IF status_code = 200
              THEN notifyPc' = "returned" /\ notified' = "True"
              ELSE IF attempt < max_retries - 1
                   THEN notifyPc' = "sleep" /\ notified' = notified
                   ELSE notifyPc' = "returned" /\ notified' = "False"
    /\ UNCHANGED <<attempt, sleeps, evaluation_url>>
    /\ UNCHANGED <<submissions_file, tasks, results, hour, nextNonce,
                   delivered, r1idx, r1pending, r2todo, r2pending,
                   gateSlot, gateOut, accepted>>
    /\ UNCHANGED <<retryVars, evalVars, storeVars,
                   buildVars, raceVars, peerVars,
                   rngVars, scoreVars, limitVars>>

\* The handler answers the issuer's POST; when the issuer has given up
\* waiting, the answer reaches nobody.
ChainRespond ==
    /\ buildSlot # << >>
    /\ notifyPc = "returned"
    /\ buildOut' = IF r1pending # << >>
                   THEN BuildResponse(200, "success", notified = "True")
                   ELSE NoBuildResponse
    /\ buildSlot' = << >>
    /\ notifyPc' = "idle"
    /\ UNCHANGED <<attempt, posts, sleeps, notified, evaluation_url>>
    /\ UNCHANGED deployed
    /\ UNCHANGED <<submissions_file, tasks, repos, results, hour, nextNonce,
                   delivered, r1idx, r1pending, r2todo, r2pending,
                   gateSlot, gateOut, accepted>>
    /\ UNCHANGED <<retryVars, evalVars, storeVars,
                   raceVars, peerVars,
                   rngVars, scoreVars, limitVars>>

\* send_task returns: with the status of the handler's answer, or with None
\* when the 30 seconds of its timeout pass while the handler is running;
\* process_submissions then logs the task with insert_task.
ChainStore(status_code) ==
    /\ r1pending # << >>
    /\ \/ /\ buildSlot = << >>
          /\ buildOut # NoBuildResponse
          /\ status_code = buildOut.code
       \/ /\ buildSlot # << >>
          /\ status_code = NoneInt
    /\ tasks' = insert_task(tasks,
                    task_record(r1pending[1], r1pending[1].endpoint, status_code),
                    TRUE)
    /\ r1pending' = << >>
    /\ r1idx' = AfterRow(r1idx)
    /\ buildOut' = NoBuildResponse
    /\ UNCHANGED <<buildSlot, deployed>>
    /\ UNCHANGED <<submissions_file, repos, results, hour, nextNonce,
                   delivered,
                   r2todo, r2pending, gateSlot, gateOut, accepted>>
    /\ UNCHANGED <<retryVars, notifyVars, evalVars,
                   storeVars, raceVars, peerVars,
                   rngVars, scoreVars, limitVars>>

\* One student, b@x.edu, whose server holds STUDENT_SECRET.
InitChain == Init /\ submissions_file = <<CsvRow("b")>>

NextChain ==
    \/ \E now \in hour..MaxHour : ChainSend(now)
    \/ ChainBuild
    \/ BuildNotify
    \/ ChainPost
    \/ NotifySleep
    \/ ChainRespond
    \/ \E status_code \in StatusCodes : ChainStore(status_code)

\* Every process keeps running: a step that can be taken is taken.
SpecChain == InitChain /\ [][NextChain]_vars /\ WF_vars(NextChain)

(***************************************************************************)
(* Template selection and the process-wide random generator                *)
(***************************************************************************)
\* The number of selections and draws followed.
MaxCalls == 3

\* A draw made elsewhere, as recorded in calls.
DrawElsewhere ==
    [op |-> "choice", email |-> NoneStr, date_hour |-> NoneInt,
     selected_id |-> << >>]

\* Variant of SelectTemplate: the generator is not seeded before the draw.
SelectTemplate_NoSeed(email, date_hour) ==
    /\ Len(calls) < MaxCalls
    /\ \E selected_id \in random_choice(rng) :
          calls' = Append(calls, [op |-> "select_template", email |-> email,
                                  date_hour |-> date_hour,
                                  selected_id |-> selected_id])
    /\ rng' = random_drawn(rng)
    /\ UNCHANGED <<submissions_file, tasks, repos, results, hour, nextNonce,
                   delivered, r1idx, r1pending, r2todo, r2pending,
                   gateSlot, gateOut, accepted>>
    /\ UNCHANGED <<retryVars, notifyVars, evalVars,
                   storeVars, buildVars, raceVars, peerVars, scoreVars, limitVars>>

\* Round1TaskGenerator.select_template(email, date_hour): seeds the
\* process-wide generator and draws one template id from it.
SelectTemplate(email, date_hour) ==
    /\ Len(calls) < MaxCalls
    /\ LET seeded == random_seed(email, date_hour)
       IN  /\ \E selected_id \in random_choice(seeded) :
                 calls' = Append(calls,
                                 [op |-> "select_template", email |-> email,
                                  date_hour |-> date_hour,
                                  selected_id |-> selected_id])
           /\ rng' = random_drawn(seeded)
    /\ UNCHANGED <<submissions_file, tasks, repos, results, hour, nextNonce,
                   delivered, r1idx, r1pending, r2todo, r2pending,
                   gateSlot, gateOut, accepted>>
    /\ UNCHANGED <<retryVars, notifyVars, evalVars,
                   storeVars, buildVars, raceVars, peerVars, scoreVars, limitVars>>

\* Any other use of the generator in the process, such as the
\* random.choice(templates) of generate_round2_task: it draws from the
\* generator in the state the last caller left.
ChoiceElsewhere ==
    /\ Len(calls) < MaxCalls
    /\ calls' = Append(calls, DrawElsewhere)
    /\ rng' = random_drawn(rng)
    /\ UNCHANGED <<submissions_file, tasks, repos, results, hour, nextNonce,
                   delivered, r1idx, r1pending, r2todo, r2pending,
                   gateSlot, gateOut, accepted>>
    /\ UNCHANGED <<retryVars, notifyVars, evalVars,
                   storeVars, buildVars, raceVars, peerVars, scoreVars, limitVars>>

NextSelect ==
    \/ \E email \in Emails, date_hour \in 0..MaxHour :
          SelectTemplate(email, date_hour)
    \/ ChoiceElsewhere

SpecSelect == Init /\ [][NextSelect]_vars

(***************************************************************************)
(* The evaluation pipeline with silent peers                               *)
(***************************************************************************)
\* The remote of git clone, and the host of the deployed page.
Peers == {"git", "pages"}

\* One Submission is evaluated; any of the peers may be silent for good.
InitTimeouts ==
    /\ submissions_file = <<CsvRow("b"), CsvRow("a")>>
    /\ tasks = <<Round1Row("b", 1)>>
    /\ repos = <<SubmissionOf(Round1Row("b", 1), 1)>>
    /\ results = << >>
    /\ nextNonce = 2
    /\ delivered = {}
    /\ accepted = {}
    /\ IssuerGateIdle /\ RetryIdle /\ NotifyIdle /\ EvalIdle /\ StoreIdle
    /\ BuildIdle /\ RaceIdle /\ RngIdle /\ ScoreIdle /\ LimiterIdle
    /\ silent \in SUBSET Peers

\* The evaluator's process keeps running: a step that can be taken is taken.
SpecTimeouts ==
    InitTimeouts /\ [][NextEvaluation]_vars /\ WF_vars(NextEvaluation)

(***************************************************************************)
(* Properties                                                              *)
(***************************************************************************)
\* A Task row with this (email, task, round, nonce) is on file.
HasTask(tbl, email, task, round, nonce) ==
    \E i \in 1..Len(tbl) :
        /\ tbl[i].email = email /\ tbl[i].task = task
        /\ tbl[i].round = round /\ tbl[i].nonce = nonce

\* The repos row insert_repo writes for a notification.
RepoRow(data) ==
    [email |-> data.email, task |-> data.task, round |-> data.round,
     nonce |-> data.nonce, repo_url |-> data.repo_url,
     commit_sha |-> data.commit_sha, pages_url |-> data.pages_url]

\* The gate takes a request: it answers it, or passes it on to insert_repo.
GateTakesRequest ==
    /\ gateSlot = << >> /\ gateOut = NoResponse
    /\ gateSlot' # << >> \/ gateOut' # NoResponse

\* C1: a notification with all seven fields passes the gate's match check
\* if and only if, at the lookup, a Task row with the same (email, task,
\* round, nonce) is on file; otherwise it is answered 400.
C1_AcceptedIffTaskMatches ==
    [][GateTakesRequest =>
          \A data \in FullRequests :
              GateReceive(data) =>
                /\ (gateSlot' = <<data>>) <=>
                     HasTask(tasks, data.email, data.task, data.round,
                             data.nonce)
                /\ (gateSlot' = << >>) => gateOut'.code = 400]_vars

\* C2: the round-1 sweep posts no task (and mints no nonce) for a student
\* who already has a round-1 Task row.
C2_ExistingStudentSkipped ==
    [][(r1pending = << >> /\ r1pending' # << >>) =>
          ~\E i \in 1..Len(tasks) :
              tasks[i].email = r1pending'[1].email /\ tasks[i].round = 1]_vars

\* C3: the tasks table holds at most one row per (email, task, round).
C3_OneTaskPerKey ==
    \A i, j \in 1..Len(tasks) : i # j => ~SameKey(tasks[i], tasks[j])

\* C3 witness: a Task row has been re-issued; a Submission of its key still
\* carries the nonce of the row it replaced.
C3_Witness ==
    \E i \in 1..Len(tasks), j \in 1..Len(repos) :
        SameKey(repos[j], tasks[i]) /\ repos[j].nonce < tasks[i].nonce

\* C4: a request the gate answers 400 leaves the tasks, repos and results
\* tables as they were.
C4_RejectLeavesTables ==
    [][(gateOut = NoResponse /\ gateOut'.code = 400) =>
          UNCHANGED <<tasks, repos, results>>]_vars

\* C4 witness: a request was answered 400 (empty body, or no matching Task)
\* while Task and Submission rows were on file.
C4_Witness ==
    gateOut = Response(400, "") /\ tasks # << >> /\ repos # << >>

\* C5 as claimed: a notification is answered 200 only if no stored
\* Submission carries its nonce.
C5_NonceSingleUse ==
    [][(gateSlot # << >> /\ gateOut'.code = 200) =>
          \A i \in 1..Len(repos) : repos[i].nonce # gateSlot[1].nonce]_vars

\* C5 as amended: a notification that repeats the (email, task, round,
\* nonce) of a stored Submission passes the match check whenever a Task row
\* with that (email, task, round, nonce) is on file, and when it is answered
\* 200 it has replaced the Submission row of its key: the table has as many
\* rows as before and the rows of other keys are untouched.
C5_ResubmissionReplaces ==
    [][/\ GateTakesRequest =>
            \A i \in 1..Len(repos), k \in Artifacts :
                LET data == Request(AllFields, repos[i].email, repos[i].task,
                                    repos[i].round, repos[i].nonce, k)
                IN  ( /\ HasTask(tasks, data.email, data.task, data.round,
                                 data.nonce)
                      /\ GateReceive(data) )
                    => gateSlot' = <<data>>
       /\ ( /\ gateSlot # << >>
            /\ gateOut'.code = 200
            /\ \E i \in 1..Len(repos) : SameKey(repos[i], gateSlot[1]) )
          => /\ Len(repos') = Len(repos)
             /\ repos'[Len(repos')] = RepoRow(gateSlot[1])
             /\ \A i \in 1..Len(repos) :
                   ~SameKey(repos[i], gateSlot[1]) =>
                       \E j \in 1..Len(repos') : repos'[j] = repos[i]]_vars

\* C5 witness: a notification was answered 200 after an earlier one with the
\* same key and nonce.
C5_Witness ==
    gateOut.code = 200 /\ \E a \in accepted : a.again

\* C6: the repos table holds at most one row per (email, task, round), and
\* the row of a key is the notification most recently answered 200 for it.
C6_LatestSubmissionStored ==
    /\ \A i, j \in 1..Len(repos) : i # j => ~SameKey(repos[i], repos[j])
    /\ \A a \in accepted : \E i \in 1..Len(repos) : repos[i] = RepoRow(a.data)
    /\ \A i \in 1..Len(repos) : \E a \in accepted : repos[i] = RepoRow(a.data)

\* C6 witness: the stored Submission is a re-submission, with the second
\* artifact.
C6_Witness ==
    \E a \in accepted :
        /\ a.again
        /\ a.data.repo_url = "repo2"
        /\ \E i \in 1..Len(repos) : repos[i] = RepoRow(a.data)

\* C7: whenever a student endpoint holds a task payload, a Task row with
\* that (email, task, round, nonce) is on file.
C7_TaskRowBeforeDelivery ==
    \A d \in delivered : HasTask(tasks, d.email, d.task, d.round, d.nonce)

\* The briefs of the round-2 candidates of a task id's family.
Round2Briefs(task) ==
    IF FamilyOf(task) \in DOMAIN round2_templates
    THEN {round2_templates[FamilyOf(task)][c].brief : c \in Round2Choices}
    ELSE {}

\* C9: when the round-2 sweep handles a round-1 Submission whose round-1 Task
\* is on file and that has no round-2 Task, it generates and posts a task
\* with the same task id, round 2 and a brief of the family's round-2
\* candidates.
C9_Round2Generated ==
    [][(r2pending = << >> /\ r2todo # << >> /\ r2todo' = Tail(r2todo)) =>
          LET repo == Head(r2todo) IN
          ( /\ OriginalTasks(repo.email, repo.task) # << >>
            /\ ~task_exists(tasks, repo.email, repo.task, 2) )
          => /\ r2pending' # << >>
             /\ r2pending'[1].email = repo.email
             /\ r2pending'[1].task = repo.task
             /\ r2pending'[1].round = 2
             /\ r2pending'[1].brief \in Round2Briefs(repo.task)]_vars

\* C10: when send_task has returned and the store commits the write, the
\* Task row of the generated task is on file with the returned status code,
\* whichever it is (200, a non-200 code, or none).
C10_RowPersistedWithStatus ==
    [][\A status_code \in StatusCodes :
          R1Store(status_code, TRUE) =>
            \E i \in 1..Len(tasks') :
                /\ SameKey(tasks'[i], r1pending[1])
                /\ tasks'[i].nonce = r1pending[1].nonce
                /\ tasks'[i].statuscode = status_code]_vars

\* C10 witness: a Task row is on file for a delivery that got no response,
\* and one for a delivery answered with a non-200 code.
C10_Witness ==
    \E i, j \in 1..Len(tasks) :
        tasks[i].statuscode = NoneInt /\ tasks[j].statuscode = 500

\* C11: a turn of the retry sweep posts, to the stored endpoint, the stored
\* email, task, round, nonce and brief and the decoded stored checks and
\* attachments of a round-2 Task row whose statuscode is not 200; the sweep
\* is started with exactly those rows to retry; it mints no nonce and leaves
\* the tasks table as it was.
C11_RetrySameTask ==
    [][/\ (failed_tasks # << >> /\ failed_tasks' = Tail(failed_tasks)) =>
            LET task == Head(failed_tasks)
                sent == retried'[Len(retried')]
            IN  /\ \E i \in 1..Len(tasks) : tasks[i] = task
                /\ task.round = 2 /\ task.statuscode # 200
                /\ sent.endpoint = task.endpoint
                /\ sent.json.email = task.email
                /\ sent.json.task = task.task
                /\ sent.json.round = task.round
                /\ sent.json.nonce = task.nonce
                /\ sent.json.brief = task.brief
                /\ json_dumps(sent.json.checks) = task.checks
                /\ json_dumps(sent.json.attachments) = task.attachments
                /\ UNCHANGED <<tasks, nextNonce>>
       /\ (failed_tasks = << >> /\ failed_tasks' # << >>) =>
            /\ \A i \in 1..Len(tasks) :
                  (tasks[i].round = 2 /\ tasks[i].statuscode # 200) <=>
                      \E j \in 1..Len(failed_tasks') :
                          failed_tasks'[j] = tasks[i]
            /\ UNCHANGED <<tasks, nextNonce>>]_vars

\* C11 witness: a retry sweep has re-delivered two Tasks, one stored without
\* a status code and one stored with a non-200 code.
C11_Witness ==
    /\ failed_tasks = << >>
    /\ Len(retried) = 2
    /\ \E i, j \in 1..Len(tasks) :
          /\ tasks[i].round = 2 /\ tasks[i].statuscode = NoneInt
          /\ tasks[j].round = 2 /\ tasks[j].statuscode = 500

\* C12: after a turn of the retry sweep the Task row of the re-delivered
\* task carries the status code that the retry returned.
C12_RetryStatusStored ==
    [][(failed_tasks # << >> /\ failed_tasks' = Tail(failed_tasks)) =>
          \E i \in 1..Len(tasks') :
              /\ SameKey(tasks'[i], Head(failed_tasks))
              /\ tasks'[i].statuscode =
                     retried'[Len(retried')].status_code]_vars

\* The POSTs of the current call that did not return 200.
FailedPosts == {k \in 1..Len(posts) : posts[k] # 200}

\* C13 as stated: notify_evaluation_api returns failure only after all
\* max_retries attempts have failed.
C13_FailureOnlyAfterAllAttempts ==
    notified = "False" =>
        Len(posts) = max_retries /\ FailedPosts = 1..max_retries

\* C13, amended: a call with a non-empty evaluation_url makes at most
\* max_retries POSTs, waits 2^k seconds after the failed attempt number k
\* that is not the last one and before the next attempt, and returns failure
\* only after all max_retries attempts have failed; a call with an empty
\* evaluation_url returns failure without any attempt.
C13_BoundedBackoff ==
    /\ Len(posts) <= max_retries
    /\ Len(sleeps) <= max_retries - 1
    /\ \A k \in 1..Len(sleeps) : sleeps[k] = 2 ^ (k - 1) /\ k \in FailedPosts
    /\ notifyPc = "post" => Len(sleeps) = Len(posts)
    /\ notifyPc \in {"sleep", "returned"} /\ posts # << >> =>
          Len(sleeps) = Len(posts) - 1
    /\ notified = "True" => posts[Len(posts)] = 200
    /\ notified = "False" =>
          IF evaluation_url = ""
          THEN posts = << >>
          ELSE Len(posts) = max_retries /\ FailedPosts = 1..max_retries

\* C13 witness: a call has returned failure after five failed attempts and
\* the waits 1, 2, 4, 8.
C13_Witness ==
    /\ notified = "False"
    /\ Len(posts) = max_retries
    /\ sleeps = <<1, 2, 4, 8>>

\* tbl continues old: the rows of old are the first rows of tbl, unchanged.
IsPrefix(old, tbl) ==
    Len(old) <= Len(tbl) /\ SubSeq(tbl, 1, Len(old)) = old

\* evaluate_repository ends: it returns after the store loop, or it raises
\* out of the clone.
PassEnds == evalPc # "idle" /\ evalPc' = "idle"

Battery ==
    <<"MIT License", "README Quality", "Code Quality",
      "Pages Accessibility", "Dynamic Functionality">>

\* The pass produced a row for the check.
HasRow(check_name) ==
    \E i \in 1..Len(evalResults) : evalResults[i].check_name = check_name

\* C15: a pass that has ended has produced a Result row for each check of
\* the battery.
C15_RowForEveryCheck ==
    (evalPc = "idle" /\ evalExit # "none") =>
        \A c \in 1..Len(Battery) : HasRow(Battery[c])

\* A row of a check that met a fault: the checks of the model give the full
\* score unless they faulted.
IsFaultRow(row) ==
    /\ \E c \in 1..Len(Battery) : Battery[c] = row.check_name
    /\ row.score < 10

C17_CloneFailureKeepsReachability ==
    [][(evalPc = "clone" /\ evalPc' # "clone"
        /\ ~\E i \in 1..Len(evalResults') :
               evalResults'[i].check_name = "MIT License")
       => evalPc' = "pages"]_vars

\* C18: the pass's list holds a 'Dynamic Functionality' row only as the row
\* right after a 'Pages Accessibility' row with the score of HTTP 200, and
\* once the checks are over it holds one whenever reachability succeeded.
C18_DynamicIffReachable ==
    /\ \A i \in 1..Len(evalResults) :
          evalResults[i].check_name = "Dynamic Functionality" =>
              /\ i > 1
              /\ evalResults[i - 1].check_name = "Pages Accessibility"
              /\ evalResults[i - 1].score = 10
    /\ (evalPc = "store" \/ (evalPc = "idle" /\ evalExit = "returned")) =>
          \A i \in 1..Len(evalResults) :
              (evalResults[i].check_name = "Pages Accessibility"
               /\ evalResults[i].score = 10)
              => /\ i < Len(evalResults)
                 /\ evalResults[i + 1].check_name = "Dynamic Functionality"

\* C18 witness: a pass has returned with the dynamic row after a successful
\* reachability row, the clone having failed.
C18_Witness ==
    /\ evalPc = "idle" /\ evalExit = "returned"
    /\ Len(evalResults) = 3
    /\ evalResults[1].check_name = "Repository Access"
    /\ evalResults[2].score = 10
    /\ evalResults[3].check_name = "Dynamic Functionality"

\* C20: the temporary directory of a pass exists only while the pass is in
\* the clone block, it is the pass's own, and none exists once
\* evaluate_repository has returned or raised.
C20_WorkspaceScoped ==
    /\ evalPc = "clone" => temp_dirs = {passes}
    /\ evalPc # "clone" => temp_dirs = {}

\* C20 witness: the second pass has raised out of the clone block and no
\* directory is left.
C20_Witness ==
    /\ passes = 2 /\ evalPc = "idle" /\ evalExit = "raised"
    /\ temp_dirs = {}

\* C19: the round-1 sweep ends only with the last row of the file, a fault
\* on a row does not keep the rows after it from being processed.
C19_SweepReachesLastRow ==
    [][(r1idx # 0 /\ r1idx' = 0) => r1idx = Len(submissions_file)]_vars

\* C21: a call of insert_task, insert_repo, insert_result or
\* insert_submission never raises; when it returns False the four tables
\* are as before; when it returns True a row stands in the method's table.
C21_InsertNeverRaises ==
    [][/\ storeOut'.returned # "raised"
       /\ storeOut'.returned = "False" =>
             UNCHANGED <<tasks, repos, results, submissions>>
       /\ storeOut'.returned = "True" =>
             /\ storeOut'.op = "insert_task" => tasks' # << >>
             /\ storeOut'.op = "insert_repo" => repos' # << >>
             /\ storeOut'.op = "insert_result" => results' # << >>
             /\ storeOut'.op = "insert_submission" => submissions' # << >>
      ]_vars

\* C22: after insert_task has returned True for a record, the dedup queries
\* for that record are true: task_exists with the record's email, task id
\* and round, and for a round-1 record the round-1 sweep's query
\* task_exists(email, None, 1).
C22_DedupReadsOwnWrite ==
    storeOut = [op |-> "insert_task", returned |-> "True"] =>
        LET task_data == tasks[Len(tasks)]
        IN  /\ task_exists(tasks, task_data.email, task_data.task,
                           task_data.round)
            /\ task_data.round = 1 =>
                  task_exists(tasks, task_data.email, NoneTask, 1)

\* C24: a request lacking a required field is answered 400 naming the first
\* missing field of required_fields; a complete request is answered 400 when
\* no Task row has its (email, task, round, nonce) and otherwise goes on to
\* the write; neither step writes; the write is answered 200 when the store
\* takes the Submission and 500, with the table as before, when it does not.
C24_GateAnswers ==
    [][/\ GateTakesRequest =>
             \A data \in FullRequests \cup PartialRequests :
                 GateReceive(data) =>
                   /\ repos' = repos
                   /\ IF data.has # AllFields
                      THEN /\ gateOut' = Response(400, FirstMissing(data.has))
                           /\ gateSlot' = << >>
                      ELSE IF ~HasTask(tasks, data.email, data.task,
                                       data.round, data.nonce)
                      THEN gateOut'.code = 400 /\ gateSlot' = << >>
                      ELSE gateSlot' = <<data>>
       /\ (gateSlot # << >> /\ gateSlot' = << >>) =>
             \/ /\ gateOut'.code = 200
                /\ repos'[Len(repos')] = RepoRow(gateSlot[1])
             \/ gateOut'.code = 500 /\ repos' = repos]_vars

\* C25: a POST the gate answered with 400 is the last POST of the call: the
\* notifier neither waits nor posts again after it.
C25_RejectedNotRetried ==
    \A k \in 1..Len(posts) :
        posts[k] = 400 => k = Len(posts) /\ notifyPc = "returned"

\* C23: when notify_evaluation_api has returned, whatever it returned, the
\* build endpoint answers 200 with status 'success' and evaluation_notified
\* set to what the notifier returned, and the repository it created is
\* still deployed; no step of the notification removes a repository.
C23_NotifyFailureKeepsBuild ==
    [][/\ (buildSlot # << >> /\ buildSlot' = << >>) =>
             /\ buildOut'.code = 200
             /\ buildOut'.status = "success"
             /\ buildOut'.evaluation_notified = (notified = "True")
             /\ RepoName(buildSlot[1]) \in deployed'
       /\ deployed \subseteq deployed']_vars

\* C23 witness: a build whose five notification attempts all failed has
\* been answered 200, success, evaluation_notified false.
C23_Witness ==
    /\ buildSlot = << >>
    /\ buildOut = BuildResponse(200, "success", FALSE)
    /\ Len(posts) = max_retries
    /\ notified = "False"
    /\ deployed # {}

\* The rows of a table with the key of a record, and the other rows.
RowsOfKey(tbl, rec) == SelectSeq(tbl, LAMBDA r : SameKey(r, rec))

RowsOfOtherKeys(tbl, rec) == SelectSeq(tbl, LAMBDA r : ~SameKey(r, rec))

\* C26: when a request thread ends its insert-Submission step, whatever the
\* other thread holds and has done, the rows of other keys are as before
\* and in the same order, at most one row has the key of the notification,
\* and it is the row of this notification when the thread answers 200; a
\* thread that does not answer 200 leaves the table as it was.  No step
\* leaves two rows with one key.
C26_RaceLeavesOneRow ==
    [][/\ \A w \in Workers :
             (workerSlot[w] # << >> /\ workerSlot'[w] = << >>) =>
                 LET data == workerSlot[w][1]
                 IN  /\ RowsOfOtherKeys(repos', data)
                           = RowsOfOtherKeys(repos, data)
                     /\ workerOut'[w].code = 200 =>
                           RowsOfKey(repos', data) = <<RepoRow(data)>>
                     /\ workerOut'[w].code # 200 => repos' = repos
       /\ \A i, j \in 1..Len(repos') :
             SameKey(repos'[i], repos'[j]) => i = j]_vars

\* C26 witness: both threads have passed the match check with notifications
\* of one key and different payloads, and a Submission of that key, written
\* by an earlier notification, is on file.
C26_Witness ==
    /\ workerSlot[1] # << >> /\ workerSlot[2] # << >>
    /\ SameKey(workerSlot[1][1], workerSlot[2][1])
    /\ workerSlot[1][1].repo_url # workerSlot[2][1].repo_url
    /\ RowsOfKey(repos, workerSlot[1][1]) # << >>

\* C27: an evaluation pass that has been started ends, whichever peers
\* stay silent.
C27_PassTerminates == (evalPc = "clone") ~> (evalPc = "idle")

\* The selections recorded in calls.
Selections == {i \in 1..Len(calls) : calls[i].op = "select_template"}

\* C28: two calls of select_template with the same email and the same hour
\* bucket return the same template family, whatever selections and draws
\* were made between them.
C28_SelectionByEmailAndBucket ==
    \A i, j \in Selections :
        (calls[i].email = calls[j].email
            /\ calls[i].date_hour = calls[j].date_hour)
        => calls[i].selected_id = calls[j].selected_id

\* C28 witness: select_template was called twice with one email and one
\* bucket, and the generator was used in between.
C28_Witness ==
    \E i, j \in Selections :
        /\ i + 1 < j
        /\ calls[i].email = calls[j].email
        /\ calls[i].date_hour = calls[j].date_hour
        /\ calls[i + 1] = DrawElsewhere

\* The sub-probes a call of the dynamic check passed: those that were run
\* and met their condition.
SubProbes(c) ==
    IF ~c.playwright_available \/ c.fault = "goto"
    THEN {}
    ELSE {p \in {"title", "body", "probe"} :
             \/ p = "title" /\ c.page.title # ""
             \/ p = "body" /\ c.page.body_len > 50
             \/ p = "probe" /\ c.fault # "probe"
                   /\ \/ Head(c.task) \in {"captcha", "weather"}
                            /\ c.page.echoes
                      \/ Head(c.task) = "todo"
                            /\ c.page.inputs > 0 /\ c.page.buttons > 0}

\* 0.3 for the title, 0.3 for the body text, 0.4 for the task-family probe,
\* clamped at 1.0, in tenths.
SumOfProbes(passed) ==
    LET sum == (IF "title" \in passed THEN 3 ELSE 0)
                 + (IF "body" \in passed THEN 3 ELSE 0)
                 + (IF "probe" \in passed THEN 4 ELSE 0)
    IN  IF sum > 10 THEN 10 ELSE sum

C30_FallbackRubric ==
    \A i \in 1..Len(readmeChecked) :
        LET readme == readmeChecked[i].readme
            score == readmeChecked[i].checked.score
            met == {c \in {"length", "heading", "section", "license", "code"} :
                       \/ c = "length" /\ readme.length > 500
                       \/ c = "heading" /\ "# " \in readme.words
                       \/ c = "section"
                             /\ \E w \in {"setup", "installation", "usage"} :
                                   w \in readme.words
                       \/ c = "license"
                             /\ \E w \in {"license", "mit"} : w \in readme.words
                       \/ c = "code" /\ Fence \in readme.words}
        IN  ~readmeChecked[i].openai_available =>
               /\ (readme.exists /\ readme.readable) =>
                      score = 2 * Cardinality(met)
               /\ (readme.exists /\ readme.readable /\ Cardinality(met) = 5) =>
                      score = 10
               /\ (~readme.exists \/ readme.length = 0) => score = 0

\* C30 witness: an evaluator without the oracle has scored a README of more
\* than 500 characters with a heading, a usage section, a license mention
\* and a fenced code block.
C30_Witness ==
    /\ readmeChecked # << >>
    /\ ~readmeChecked[1].openai_available
    /\ readmeChecked[1].readme.readable
    /\ readmeChecked[1].readme.length > 500
    /\ {"# ", "usage", "license", Fence} \subseteq readmeChecked[1].readme.words
    /\ readmeChecked[1].checked.score = 10

\* C31: when the oracle is available and its reply does not start with a
\* number, the documentation check returns the score the fallback rubric
\* gives that README.
C31_UnparsableFallsBackToRubric ==
    \A i \in 1..Len(readmeChecked) :
        LET c == readmeChecked[i]
        IN  (c.openai_available /\ c.readme.exists /\ c.readme.readable
                /\ c.reply.kind = "unparsable")
            => c.checked.score = ReadmeRubric(c.readme).score

\* C32: the code-quality check scores 0.0 whenever the workspace holds no
\* code file that can be inspected, with the oracle and without it.
C32_NoCodeScoresZero ==
    \A i \in 1..Len(codeChecked) :
        LET c == codeChecked[i]
        IN  (\A k \in 1..Len(c.code_files) : ~c.code_files[k])
            => c.checked.score = 0

\* C33: the license check scores 1.0 exactly when the workspace holds a
\* file named LICENSE, in any case variant and with or without an
\* extension, whose text contains "mit" in any case; it scores 0.0
\* otherwise.
C33_LicenseInAnyCase ==
    \A i \in 1..Len(licenseChecked) :
        LET c == licenseChecked[i]
            named == {f \in DOMAIN c.workspace :
                         Lower(f) \in {"license", "license.md", "license.txt"}}
        IN  /\ c.checked.score \in {0, 10}
            /\ c.checked.score = 10 <=>
                  \E f \in named : c.workspace[f] = "mit"

\* C34: a registration with email, endpoint and secret, with or without
\* repo_url, is stored when the store takes it; then the submissions table
\* holds one row of that email, with the endpoint and secret of this
\* registration, and the rows of the other emails are as before.  A
\* registration that is not stored leaves the table as it was, and no email
\* ever has two rows.
C34_LatestRegistrationWins ==
    [][\A d \in SubmissionRecords, fault \in StoreFaults :
          CallInsertSubmission(d, fault) =>
             LET mine(tbl) == SelectSeq(tbl, LAMBDA r : r.email = d.email)
                 others(tbl) == SelectSeq(tbl, LAMBDA r : r.email # d.email)
             IN  /\ fault = "none" => storeOut'.returned = "True"
                 /\ storeOut'.returned = "True" =>
                       /\ Len(mine(submissions')) = 1
                       /\ mine(submissions')[1].endpoint = d.endpoint
                       /\ mine(submissions')[1].secret = d.secret
                       /\ others(submissions') = others(submissions)
                 /\ storeOut'.returned # "True" => submissions' = submissions
                 /\ \A i, j \in 1..Len(submissions') :
                       submissions'[i].email = submissions'[j].email => i = j
      ]_vars

\* C34 witness: a@x.edu has registered again, after b@x.edu, with another
\* endpoint and secret, and the table holds that registration.
C34_Witness ==
    /\ storeOut = [op |-> "insert_submission", returned |-> "True"]
    /\ Len(submissions) = 2
    /\ submissions[1].email = "b@x.edu"
    /\ submissions[2].email = "a@x.edu"
    /\ submissions[2].endpoint = "http://a2/api/build"
    /\ submissions[2].secret = "secret-a2"

\* C35: every stored Submission refers to an issued Task: the tasks table
\* holds a row with the email, task and round of the Submission, and that
\* row has the Submission's nonce.
C35_SubmissionRefersToTask ==
    \A i \in 1..Len(repos) :
        \E j \in 1..Len(tasks) :
            /\ tasks[j].email = repos[i].email
            /\ tasks[j].task = repos[i].task
            /\ tasks[j].round = repos[i].round
            /\ tasks[j].nonce = repos[i].nonce

\* C36: when the student's server has built the delivered task and notifies
\* the evaluator with the delivered email, task, round and nonce, and the
\* evaluator and its store are available, a Submission of that delivery is
\* recorded in the end.
C36_DeliveredIsRecorded ==
    \A n \in 1..MaxNonce :
        (buildSlot # << >> /\ buildSlot[1].nonce = n)
        ~> (\E i \in 1..Len(repos) :
               /\ repos[i].nonce = n
               /\ repos[i].email = "b@x.edu"
               /\ repos[i].round = 1)

\* C37: notify_evaluation_api returns success exactly when an attempt was
\* answered 200; the 200 is the last attempt and no wait follows it; there
\* is one wait between two attempts and none after the last failed attempt.
C37_SuccessIffSome200 ==
    /\ notifyPc = "returned" =>
          /\ notified \in {"True", "False"}
          /\ notified = "True" <=> \E k \in 1..Len(posts) : posts[k] = 200
    /\ \A k \in 1..Len(posts) :
          posts[k] = 200 =>
             /\ k = Len(posts)
             /\ notifyPc = "returned"
             /\ Len(sleeps) = k - 1
    /\ Len(posts) <= max_retries
    /\ notifyPc = "returned" /\ posts # << >> => Len(sleeps) = Len(posts) - 1

\* C37 witness: the call has returned success after failed attempts.
C37_Witness ==
    /\ notifyPc = "returned"
    /\ notified = "True"
    /\ Len(posts) = 3
    /\ posts[1] # 200 /\ posts[2] # 200 /\ posts[3] = 200
    /\ Len(sleeps) = 2

\* C38: a fault while the task-family probe runs leaves the credit of the
\* title and of the body text: the check scores 0.3 for a title plus 0.3
\* for a body text of more than 50 characters.
C38_ProbeFaultKeepsCredit ==
    \A i \in 1..Len(dynamicChecked) :
        LET c == dynamicChecked[i]
        IN  (c.playwright_available /\ c.fault = "probe") =>
               c.checked.score =
                   (IF c.page.title # "" THEN 3 ELSE 0)
                     + (IF c.page.body_len > 50 THEN 3 ELSE 0)

\* C39: a build request that carries every required field and a secret
\* other than the student's is answered 401, and a build request that misses
\* a required field is answered 400; either answer is given with no
\* repository created or filled, no request taken into the build and no
\* notification started or posted.
C39_RejectedWithoutSideEffect ==
    [][\A data \in BuildRequests, github \in GithubOutcomes :
          BuildReceive(data, github) =>
             LET untouched ==
                    /\ deployed' = deployed
                    /\ buildSlot' = buildSlot
                    /\ posts' = posts
                    /\ sleeps' = sleeps
                    /\ notifyPc' = notifyPc
                    /\ attempt' = attempt
             IN  /\ (data.has = BuildFields /\ ~verify_secret(data.secret))
                       => buildOut'.code = 401 /\ untouched
                 /\ data.has # BuildFields
                       => buildOut'.code = 400 /\ untouched
      ]_vars

\* C39 witness: the first request to the server was answered 401, and there
\* is no repository, no build under way and no POST.
C39_Witness ==
    /\ buildOut.code = 401
    /\ deployed = {}
    /\ buildSlot = << >>
    /\ posts = << >>
    /\ notifyPc = "idle"

(***************************************************************************)
(* The rate limiter called on its own                                      *)
(***************************************************************************)
\* rate_limiter.is_allowed(email) at the present time.
IsAllowed(email) ==
    /\ LET returned == is_allowed(requests[email], clock)
       IN  /\ requests' = [requests EXCEPT ![email] = returned.requests]
           /\ granted' = IF returned.allowed
                         THEN [granted EXCEPT ![email] = Append(@, clock)]
                         ELSE granted
           /\ limitOut' = [email |-> email, at |-> clock,
                           allowed |-> returned.allowed,
                           reason |-> returned.reason]
    /\ UNCHANGED clock
    /\ UNCHANGED <<submissions_file, tasks, repos, results, hour, nextNonce,
                   delivered, r1idx, r1pending, r2todo, r2pending,
                   gateSlot, gateOut, accepted>>
    /\ UNCHANGED <<retryVars, notifyVars, evalVars, storeVars, buildVars,
                   raceVars, peerVars, rngVars, scoreVars>>

\* Time passes between two calls.
LimiterTick(t) ==
    /\ t > clock
    /\ clock' = t
    /\ UNCHANGED <<requests, granted, limitOut>>
    /\ UNCHANGED <<submissions_file, tasks, repos, results, hour, nextNonce,
                   delivered, r1idx, r1pending, r2todo, r2pending,
                   gateSlot, gateOut, accepted>>
    /\ UNCHANGED <<retryVars, notifyVars, evalVars, storeVars, buildVars,
                   raceVars, peerVars, rngVars, scoreVars>>

NextLimiter ==
    \/ \E email \in LimiterEmails :
          /\ email = "b@x.edu" => Len(granted[email]) < MaxOther
          /\ IsAllowed(email)
    \/ \E t \in Times : LimiterTick(t)

SpecLimiter == Init /\ [][NextLimiter]_vars

\* The number of times of a list that lie in the window of the given length
\* that starts at from.
InWindow(timestamps, from, length) ==
    Cardinality({i \in 1..Len(timestamps) :
                    timestamps[i] >= from /\ timestamps[i] < from + length})

\* The number of times of a list that are less than length before now.
Within(timestamps, now, length) ==
    Cardinality({i \in 1..Len(timestamps) : now - timestamps[i] < length})

\* C40: the requests is_allowed has allowed for an email number at most 2 in
\* any window of 60 seconds and at most 10 in any window of 3600 seconds; a
\* call for an email is allowed exactly when fewer than 2 requests of that
\* email were allowed in the last 60 seconds and fewer than 10 in the last
\* 3600 seconds, whatever was asked for other emails and however many
\* requests of the email were denied; a denied call adds nothing to the list
\* of the email, and no call touches the list of another email.
C40_LimitsPerEmail ==
    [][\A email \in LimiterEmails :
          IsAllowed(email) =>
             /\ \A i \in 1..Len(granted'[email]) :
                   /\ InWindow(granted'[email], granted'[email][i],
                               MinuteWindow) <= 2
                   /\ InWindow(granted'[email], granted'[email][i],
                               HourWindow) <= 10
             /\ limitOut'.allowed <=>
                   /\ Within(granted[email], clock, MinuteWindow) < 2
                   /\ Within(granted[email], clock, HourWindow) < 10
             /\ ~limitOut'.allowed =>
                   Len(requests'[email]) <= Len(requests[email])
             /\ \A other \in LimiterEmails \ {email} :
                   requests'[other] = requests[other]
      ]_vars

\* C40 witness: an email that has been allowed 10 requests within the hour
\* is denied for the hour limit one second before the first of them is an
\* hour old, after another email was allowed a request.
C40_Witness ==
    /\ limitOut.email = "a@x.edu"
    /\ limitOut.at = 3599
    /\ ~limitOut.allowed
    /\ limitOut.reason = "Too many requests per hour"
    /\ Len(granted["a@x.edu"]) = 10
    /\ Len(granted["b@x.edu"]) > 0

====
